---- MODULE Spec2Model ----
(***************************************************************************)
(* Redstring backend: similarity scoring, county-keyed cluster detection,  *)
(* the dataset-size gate of POST /api/clusters/analyze and the persistence *)
(* of cluster results.                                                     *)
(*                                                                         *)
(* Number encoding.  Python floats that carry one decimal (scores, solve   *)
(* rates, thresholds) are integers in TENTHS (100.0 is 1000).  Distances   *)
(* are integers in HUNDREDTHS of a mile (haversine_distance rounds to 2    *)
(* decimals).  Coordinates are integers in 1e-4 degrees.  Optional[x] is   *)
(* the empty set (None) or a singleton {x}.                                *)
(***************************************************************************)
EXTENDS Integers, Sequences, FiniteSets, TLC

VARIABLES
    call,             \* the pure-function call under test: its name and arguments
    ret,              \* its outcome, "pending" before the call is made
    now,              \* the wall clock, int(time.time() * 1000), in ms
    req,              \* per request: position in the handler, inputs, locals, response
    cluster_results,  \* committed rows of table cluster_results, by cluster_id
    cluster_membership, \* committed rows of table cluster_membership
    writer            \* the request holding SQLite's write lock, None when free

vars == <<call, ret, now, req, cluster_results, cluster_membership, writer>>

None == {}
Some(v) == {v}
Val(o) == CHOOSE v \in o : TRUE

Abs(x) == IF x < 0 THEN -x ELSE x
Max(a, b) == IF a >= b THEN a ELSE b

\* round(n / d) to the nearest integer, ties to the even one (Python's round
\* on the decimal it is handed), for n >= 0 and d > 0.
RoundDiv(n, d) ==
    LET q == n \div d
        r2 == 2 * (n % d)
    IN  IF r2 < d THEN q
        ELSE IF r2 > d THEN q + 1
        ELSE IF q % 2 = 0 THEN q ELSE q + 1

RECURSIVE SumSeq(_)
SumSeq(s) == IF s = <<>> THEN 0 ELSE Head(s) + SumSeq(Tail(s))

(***************************************************************************)
(* Bounds of the model.                                                    *)
(***************************************************************************)
MaxCases == 4        \* longest case list handed to detect_clusters
MaxClock == 2        \* last millisecond the clock reaches
MaxCaseCount == 50005 \* largest counted dataset handed to classify_dataset_tier

(***************************************************************************)
(* utils/geo.py                                                            *)
(***************************************************************************)
Chicago == [lat |-> 418781, lon |-> -876298]
Near    == [lat |-> 419500, lon |-> -879000]
LA      == [lat |-> 340522, lon |-> -1182437]
Mid     == [lat |-> 419000, lon |-> -877000]

\* haversine_distance on the model's three points, in hundredths of a mile:
\* one entry per ordered pair of points, each the value the source returns
\* for the arguments in that order (R = 3959.0, rounded to 2 decimals).
haversine_distance(lat1, lon1, lat2, lon2) ==
    LET a == [lat |-> lat1, lon |-> lon1]
        b == [lat |-> lat2, lon |-> lon2]
    IN  CASE a = Chicago /\ b = Chicago -> 0
          [] a = Chicago /\ b = Near    -> 1475
          [] a = Chicago /\ b = LA      -> 174241
          [] a = Near    /\ b = Chicago -> 1475
          [] a = Near    /\ b = Near    -> 0
          [] a = Near    /\ b = LA      -> 172937
          [] a = LA      /\ b = Chicago -> 174241
          [] a = LA      /\ b = Near    -> 172937
          [] a = LA      /\ b = LA      -> 0
          [] a = Mid     /\ b = Mid     -> 0
          [] a = Chicago /\ b = Mid     -> 392
          [] a = Mid     /\ b = Chicago -> 392
          [] a = Near    /\ b = Mid     -> 1085
          [] a = Mid     /\ b = Near    -> 1085
          [] a = LA      /\ b = Mid     -> 173905
          [] a = Mid     /\ b = LA      -> 173905

MaxDistanceMiles == 50

\* Mutant: the county test no longer asks for the identifiers to be present.
calculate_geographic_score_AnyCounty(case1_county_fips, case1_lat, case1_lon, case2_county_fips, case2_lat, case2_lon, max_distance_miles) ==
    IF case1_county_fips = case2_county_fips
    THEN 1000
    ELSE IF \/ case1_lat = None
            \/ case1_lon = None
            \/ case2_lat = None
            \/ case2_lon = None
    THEN 0
    ELSE LET distance == haversine_distance(Val(case1_lat), Val(case1_lon),
                                            Val(case2_lat), Val(case2_lon))
         IN  IF distance >= max_distance_miles * 100
             THEN 0
             ELSE RoundDiv(1000 * (max_distance_miles * 100 - distance),
                           max_distance_miles * 100)

\* Mutant: an absent identifier of the second case matches any county of
\* the first.
calculate_geographic_score_FirstCounty(case1_county_fips, case1_lat, case1_lon, case2_county_fips, case2_lat, case2_lon, max_distance_miles) ==
    IF /\ case1_county_fips # None
       /\ case2_county_fips \in {None, case1_county_fips}
    THEN 1000
    ELSE IF \/ case1_lat = None
            \/ case1_lon = None
            \/ case2_lat = None
            \/ case2_lon = None
    THEN 0
    ELSE LET distance == haversine_distance(Val(case1_lat), Val(case1_lon),
                                            Val(case2_lat), Val(case2_lon))
         IN  IF distance >= max_distance_miles * 100
             THEN 0
             ELSE RoundDiv(1000 * (max_distance_miles * 100 - distance),
                           max_distance_miles * 100)

\* Mutant: the same-county short-circuit is left out.
calculate_geographic_score_NoCounty(case1_county_fips, case1_lat, case1_lon, case2_county_fips, case2_lat, case2_lon, max_distance_miles) ==
    IF \/ case1_lat = None
       \/ case1_lon = None
       \/ case2_lat = None
       \/ case2_lon = None
    THEN 0
    ELSE LET distance == haversine_distance(Val(case1_lat), Val(case1_lon),
                                            Val(case2_lat), Val(case2_lon))
         IN  IF distance >= max_distance_miles * 100
             THEN 0
             ELSE RoundDiv(1000 * (max_distance_miles * 100 - distance),
                           max_distance_miles * 100)

calculate_geographic_score(case1_county_fips, case1_lat, case1_lon, case2_county_fips, case2_lat, case2_lon, max_distance_miles) ==
    IF /\ case1_county_fips # None
       /\ case2_county_fips # None
       /\ case1_county_fips = case2_county_fips
    THEN 1000
    ELSE IF \/ case1_lat = None
            \/ case1_lon = None
            \/ case2_lat = None
            \/ case2_lon = None
    THEN 0
    ELSE LET distance == haversine_distance(Val(case1_lat), Val(case1_lon),
                                            Val(case2_lat), Val(case2_lon))
         IN  IF distance >= max_distance_miles * 100
             THEN 0
             ELSE \* 100.0 * (1.0 - distance / max_distance_miles), 1 decimal
                  RoundDiv(1000 * (max_distance_miles * 100 - distance),
                           max_distance_miles * 100)

\* Mutant: the key leaves the state out.
get_county_key_NoState(county_fips, state) ==
    IF county_fips = None
    THEN <<"", "UNKNOWN">>
    ELSE <<"", ToString(Val(county_fips))>>

get_county_key(county_fips, state) ==
    IF county_fips = None
    THEN <<state, "UNKNOWN">>
    ELSE <<state, ToString(Val(county_fips))>>

(***************************************************************************)
(* analysis/clustering.py: weapon categories and the scorer                *)
(***************************************************************************)
WEAPON_CATEGORIES ==
    [firearm  |-> {11, 12, 13, 14, 15},
     blade    |-> {20, 21},
     blunt    |-> {30, 31},
     personal |-> {40, 41},
     other    |-> {50, 60, 65, 70, 80, 90, 99}]

get_weapon_category(weapon_code) ==
    IF weapon_code \in WEAPON_CATEGORIES.firearm THEN Some("firearm")
    ELSE IF weapon_code \in WEAPON_CATEGORIES.blade THEN Some("blade")
    ELSE IF weapon_code \in WEAPON_CATEGORIES.blunt THEN Some("blunt")
    ELSE IF weapon_code \in WEAPON_CATEGORIES.personal THEN Some("personal")
    ELSE IF weapon_code \in WEAPON_CATEGORIES.other THEN Some("other")
    ELSE None

DefaultWeights ==
    [geographic |-> 35, weapon |-> 25, victim_sex |-> 20,
     victim_age |-> 10, temporal |-> 7, victim_race |-> 3]

total(w) ==
    w.geographic + w.weapon + w.victim_sex + w.victim_age + w.temporal
        + w.victim_race

UnknownAge == 999

\* Mutant: the unknown age enters the subtraction like any age.
FactorScores_AgeSubtracted(case1, case2) ==
    [geographic |->
        calculate_geographic_score(
            case1.county_fips_code, case1.latitude, case1.longitude,
            case2.county_fips_code, case2.latitude, case2.longitude,
            MaxDistanceMiles),
     weapon |->
        IF case1.weapon_code = case2.weapon_code THEN 1000
        ELSE IF get_weapon_category(case1.weapon_code)
                    = get_weapon_category(case2.weapon_code) THEN 700
        ELSE 0,
     victim_sex |->
        IF case1.vic_sex_code = case2.vic_sex_code THEN 1000 ELSE 0,
     victim_age |->
        Max(0, 1000 - Abs(case1.vic_age - case2.vic_age) * 50),
     temporal |-> Max(0, 1000 - Abs(case1.year - case2.year) * 100),
     victim_race |->
        IF case1.vic_race = case2.vic_race THEN 1000 ELSE 0]

\* Mutant: the age penalty is 10 points per year, as the temporal one.
FactorScores_AgeTenPerYear(case1, case2) ==
    [geographic |->
        calculate_geographic_score(
            case1.county_fips_code, case1.latitude, case1.longitude,
            case2.county_fips_code, case2.latitude, case2.longitude,
            MaxDistanceMiles),
     weapon |->
        IF case1.weapon_code = case2.weapon_code THEN 1000
        ELSE IF get_weapon_category(case1.weapon_code)
                    = get_weapon_category(case2.weapon_code) THEN 700
        ELSE 0,
     victim_sex |->
        IF case1.vic_sex_code = case2.vic_sex_code THEN 1000 ELSE 0,
     victim_age |->
        IF case1.vic_age = UnknownAge \/ case2.vic_age = UnknownAge THEN 0
        ELSE Max(0, 1000 - Abs(case1.vic_age - case2.vic_age) * 100),
     temporal |-> Max(0, 1000 - Abs(case1.year - case2.year) * 100),
     victim_race |->
        IF case1.vic_race = case2.vic_race THEN 1000 ELSE 0]

FactorScores(case1, case2) ==
    [geographic |->
        calculate_geographic_score(
            case1.county_fips_code, case1.latitude, case1.longitude,
            case2.county_fips_code, case2.latitude, case2.longitude,
            MaxDistanceMiles),
     weapon |->
        IF case1.weapon_code = case2.weapon_code THEN 1000
        ELSE IF get_weapon_category(case1.weapon_code)
                    = get_weapon_category(case2.weapon_code) THEN 700
        ELSE 0,
     victim_sex |->
        IF case1.vic_sex_code = case2.vic_sex_code THEN 1000 ELSE 0,
     victim_age |->
        IF case1.vic_age = UnknownAge \/ case2.vic_age = UnknownAge THEN 0
        ELSE Max(0, 1000 - Abs(case1.vic_age - case2.vic_age) * 50),
     temporal |-> Max(0, 1000 - Abs(case1.year - case2.year) * 100),
     victim_race |->
        IF case1.vic_race = case2.vic_race THEN 1000 ELSE 0]

\* round(total_score, 1) is taken of a double.  Where the exact quotient lies
\* half-way between two tenths, the double the source computes lies on one
\* side of it, and which side depends on the rounding errors of the products
\* and of the division.  FloatTies lists, for the half-way cases among the
\* model's inputs where the source's result differs from RoundDiv's, the
\* total the source returns (the factors of weight 0 add 0.0 and play no
\* part).
FloatTies ==
    LET uneven == [geographic |-> 2, weapon |-> 1, victim_sex |-> 0,
                   victim_age |-> 1, temporal |-> 0, victim_race |-> 0]
        tripled == [geographic |-> 6, weapon |-> 3, victim_sex |-> 0,
                    victim_age |-> 3, temporal |-> 0, victim_race |-> 0]
    IN  {[weights |-> tripled, geographic |-> 922, weapon |-> 0,
          victim_age |-> 750, total |-> 649],
         [weights |-> tripled, geographic |-> 922, weapon |-> 0,
          victim_age |-> 950, total |-> 699],
         [weights |-> tripled, geographic |-> 922, weapon |-> 1000,
          victim_age |-> 750, total |-> 899],
         [weights |-> tripled, geographic |-> 922, weapon |-> 1000,
          victim_age |-> 950, total |-> 949],
         [weights |-> uneven, geographic |-> 922, weapon |-> 700,
          victim_age |-> 750, total |-> 823],
         [weights |-> uneven, geographic |-> 922, weapon |-> 700,
          victim_age |-> 950, total |-> 873]}

\* round(total_score, 1), in tenths.
RoundTotal(scores, weights, weighted, total_weight) ==
    LET ties == {t \in FloatTies :
                    /\ t.weights = weights
                    /\ t.geographic = scores.geographic
                    /\ t.weapon = scores.weapon
                    /\ t.victim_age = scores.victim_age}
    IN  IF ties # {} THEN (CHOOSE t \in ties : TRUE).total
        ELSE RoundDiv(weighted, total_weight)

\* Mutant: a zero weight total is silently scored 0.0.
calculate_similarity_ZeroDefault(case1, case2, weights) ==
    LET scores == FactorScores(case1, case2)
        total_weight == total(weights)
        weighted == scores.geographic * weights.geographic
                    + scores.weapon * weights.weapon
                    + scores.victim_sex * weights.victim_sex
                    + scores.victim_age * weights.victim_age
                    + scores.temporal * weights.temporal
                    + scores.victim_race * weights.victim_race
    IN  [raised |-> "none",
         total  |-> IF total_weight = 0 THEN 0
                    ELSE RoundDiv(weighted, total_weight),
         scores |-> scores]

\* The outcome of calculate_similarity: the ZeroDivisionError of the division
\* by weights.total(), or the rounded total with the factor scores.
calculate_similarity(case1, case2, weights) ==
    LET scores == FactorScores(case1, case2)
        total_weight == total(weights)
        weighted == scores.geographic * weights.geographic
                    + scores.weapon * weights.weapon
                    + scores.victim_sex * weights.victim_sex
                    + scores.victim_age * weights.victim_age
                    + scores.temporal * weights.temporal
                    + scores.victim_race * weights.victim_race
    IN  IF total_weight = 0
        THEN [raised |-> "ZeroDivisionError"]
        ELSE [raised |-> "none",
              total  |-> RoundTotal(scores, weights, weighted, total_weight),
              scores |-> scores]

(***************************************************************************)
(* analysis/clustering.py: detect_clusters                                 *)
(***************************************************************************)
KeyOf(case) == get_county_key(case.county_fips_code, case.state)

\* The keys of county_groups in dict order: order of first occurrence.
RECURSIVE GroupKeysFrom(_, _)
GroupKeysFrom(cases, acc) ==
    IF cases = <<>> THEN acc
    ELSE LET k == KeyOf(Head(cases))
         IN  GroupKeysFrom(Tail(cases),
                           IF \E i \in 1..Len(acc) : acc[i] = k
                           THEN acc ELSE Append(acc, k))

GroupKeys(cases) == GroupKeysFrom(cases, <<>>)

\* county_groups[county_key]
CountyCases(cases, county_key) ==
    SelectSeq(cases, LAMBDA c : KeyOf(c) = county_key)

\* Mutant: only neighbours in the list are paired.
RECURSIVE PairSeq_AdjacentOnly(_, _, _)
PairSeq_AdjacentOnly(i, j, n) ==
    IF i >= n THEN <<>>
    ELSE <<<<i, i + 1>>>> \o PairSeq_AdjacentOnly(i + 1, i + 2, n)

\* The index pairs (i, j), i < j, in the order of the two nested loops.
RECURSIVE PairSeq(_, _, _)
PairSeq(i, j, n) ==
    IF i >= n THEN <<>>
    ELSE IF j > n THEN PairSeq(i + 1, i + 2, n)
    ELSE <<<<i, j>>>> \o PairSeq(i, j + 1, n)

\* One entry per scored pair: the two cases and calculate_similarity's outcome.
ScoredPairs(county_cases, weights) ==
    LET ps == PairSeq(1, 2, Len(county_cases))
    IN  [k \in 1..Len(ps) |->
            [case1 |-> county_cases[ps[k][1]],
             case2 |-> county_cases[ps[k][2]],
             outcome |-> calculate_similarity(county_cases[ps[k][1]],
                                              county_cases[ps[k][2]],
                                              weights)]]

\* Mutant: the comparison is turned round.
IsSimilarPair_Inverted(similarity, similarity_threshold) ==
    similarity <= similarity_threshold

\* similarity >= config.similarity_threshold
IsSimilarPair(similarity, similarity_threshold) ==
    similarity >= similarity_threshold

\* similar_pairs of one county group, as <<case1.id, case2.id, similarity>>.
SimilarPairs(county_cases, config) ==
    LET scored == ScoredPairs(county_cases, config.weights)
        kept == SelectSeq(scored,
                    LAMBDA p : IsSimilarPair(p.outcome.total,
                                             config.similarity_threshold))
    IN  [k \in 1..Len(kept) |->
            <<kept[k].case1.id, kept[k].case2.id, kept[k].outcome.total>>]

\* Keys of the adjacency dict in insertion order.
RECURSIVE AdjacencyKeysFrom(_, _)
AdjacencyKeysFrom(similar_pairs, acc) ==
    IF similar_pairs = <<>> THEN acc
    ELSE LET p == Head(similar_pairs)
             a1 == IF \E i \in 1..Len(acc) : acc[i] = p[1]
                   THEN acc ELSE Append(acc, p[1])
             a2 == IF \E i \in 1..Len(a1) : a1[i] = p[2]
                   THEN a1 ELSE Append(a1, p[2])
         IN  AdjacencyKeysFrom(Tail(similar_pairs), a2)

\* adjacency[case_id]: <<neighbor_id, similarity>> in insertion order.
RECURSIVE Adjacency(_, _)
Adjacency(similar_pairs, case_id) ==
    IF similar_pairs = <<>> THEN <<>>
    ELSE LET p == Head(similar_pairs)
             rest == Adjacency(Tail(similar_pairs), case_id)
         IN  IF p[1] = case_id THEN <<<<p[2], p[3]>>>> \o rest
             ELSE IF p[2] = case_id THEN <<<<p[1], p[3]>>>> \o rest
             ELSE rest

\* Mutant: the traversal stops at the neighbours of the first case.
DFS_OneLevel(stack, visited, cluster_case_ids, cluster_similarities, similar_pairs) ==
    LET current_id == stack[Len(stack)]
        seen == visited \cup {current_id}
        pushed == SelectSeq(Adjacency(similar_pairs, current_id),
                            LAMBDA n : n[1] \notin seen)
    IN  [visited |-> seen \cup {pushed[k][1] : k \in 1..Len(pushed)},
         cluster_case_ids |->
            <<current_id>> \o [k \in 1..Len(pushed) |-> pushed[k][1]],
         cluster_similarities |-> [k \in 1..Len(pushed) |-> pushed[k][2]]]

\* Mutant: a neighbour already on the stack is neither pushed nor counted.
RECURSIVE DFS_TreeEdgesOnly(_, _, _, _, _)
DFS_TreeEdgesOnly(stack, visited, cluster_case_ids, cluster_similarities, similar_pairs) ==
    IF stack = <<>>
    THEN [visited |-> visited,
          cluster_case_ids |-> cluster_case_ids,
          cluster_similarities |-> cluster_similarities]
    ELSE LET current_id == stack[Len(stack)]
             popped == SubSeq(stack, 1, Len(stack) - 1)
         IN  IF current_id \in visited
             THEN DFS_TreeEdgesOnly(popped, visited, cluster_case_ids,
                                    cluster_similarities, similar_pairs)
             ELSE LET seen == visited \cup {current_id}
                      pushed == SelectSeq(Adjacency(similar_pairs, current_id),
                                    LAMBDA n :
                                        /\ n[1] \notin seen
                                        /\ \A k \in 1..Len(popped) :
                                               popped[k] # n[1])
                  IN  DFS_TreeEdgesOnly(
                          popped \o [k \in 1..Len(pushed) |-> pushed[k][1]],
                          seen,
                          Append(cluster_case_ids, current_id),
                          cluster_similarities
                              \o [k \in 1..Len(pushed) |-> pushed[k][2]],
                          similar_pairs)

\* The while-stack loop: pop, skip the visited, visit, push unvisited neighbours.
RECURSIVE DFS(_, _, _, _, _)
DFS(stack, visited, cluster_case_ids, cluster_similarities, similar_pairs) ==
    IF stack = <<>>
    THEN [visited |-> visited,
          cluster_case_ids |-> cluster_case_ids,
          cluster_similarities |-> cluster_similarities]
    ELSE LET current_id == stack[Len(stack)]
             popped == SubSeq(stack, 1, Len(stack) - 1)
         IN  IF current_id \in visited
             THEN DFS(popped, visited, cluster_case_ids, cluster_similarities,
                      similar_pairs)
             ELSE LET seen == visited \cup {current_id}
                      pushed == SelectSeq(Adjacency(similar_pairs, current_id),
                                          LAMBDA n : n[1] \notin seen)
                  IN  DFS(popped \o [k \in 1..Len(pushed) |-> pushed[k][1]],
                          seen,
                          Append(cluster_case_ids, current_id),
                          cluster_similarities
                              \o [k \in 1..Len(pushed) |-> pushed[k][2]],
                          similar_pairs)

\* The for-loop over adjacency: one component per unvisited key.
RECURSIVE ComponentsFrom(_, _, _, _)
ComponentsFrom(keys, visited, similar_pairs, acc) ==
    IF keys = <<>> THEN acc
    ELSE IF Head(keys) \in visited
    THEN ComponentsFrom(Tail(keys), visited, similar_pairs, acc)
    ELSE LET d == DFS(<<Head(keys)>>, visited, <<>>, <<>>, similar_pairs)
         IN  ComponentsFrom(Tail(keys), d.visited, similar_pairs,
                 Append(acc, [cluster_case_ids |-> d.cluster_case_ids,
                              cluster_similarities |-> d.cluster_similarities]))

\* len(county_cases) < config.min_cluster_size: the group is skipped.
GroupTooSmall(county_cases, config) ==
    Len(county_cases) < config.min_cluster_size

\* The components of one county group, each with the group's key and its
\* member cases (case_by_id lookups), in discovery order.
GroupComponents(cases, county_key, config) ==
    LET county_cases == CountyCases(cases, county_key)
        similar_pairs == SimilarPairs(county_cases, config)
        comps == ComponentsFrom(AdjacencyKeysFrom(similar_pairs, <<>>), {},
                                similar_pairs, <<>>)
        case_by_id(cid) == CHOOSE c \in {county_cases[i] :
                                          i \in 1..Len(county_cases)} :
                              c.id = cid
    IN  IF GroupTooSmall(county_cases, config) THEN <<>>
        ELSE [k \in 1..Len(comps) |->
                [county_key |-> county_key,
                 cluster_cases |->
                    [m \in 1..Len(comps[k].cluster_case_ids) |->
                        case_by_id(comps[k].cluster_case_ids[m])],
                 cluster_similarities |-> comps[k].cluster_similarities]]

\* A scored pair exists in a group that is not skipped and weights.total()
\* is 0: calculate_similarity raises and detect_clusters propagates it.
DetectRaises(cases, config) ==
    \E g \in 1..Len(GroupKeys(cases)) :
        LET county_cases == CountyCases(cases, GroupKeys(cases)[g])
            scored == ScoredPairs(county_cases, config.weights)
        IN  /\ ~GroupTooSmall(county_cases, config)
            /\ \E k \in 1..Len(scored) : scored[k].outcome.raised # "none"

RECURSIVE AllComponentsFrom(_, _, _)
AllComponentsFrom(cases, keys, config) ==
    IF keys = <<>> THEN <<>>
    ELSE GroupComponents(cases, Head(keys), config)
            \o AllComponentsFrom(cases, Tail(keys), config)

\* similar_pairs of every county group that is not skipped, group after group.
RECURSIVE AllSimilarPairsFrom(_, _, _)
AllSimilarPairsFrom(cases, keys, config) ==
    IF keys = <<>> THEN <<>>
    ELSE (IF GroupTooSmall(CountyCases(cases, Head(keys)), config) THEN <<>>
          ELSE SimilarPairs(CountyCases(cases, Head(keys)), config))
            \o AllSimilarPairsFrom(cases, Tail(keys), config)

AllSimilarPairs(cases, config) ==
    AllSimilarPairsFrom(cases, GroupKeys(cases), config)

\* Every component of every county group, in the order the loops find them.
AllComponents(cases, config) ==
    AllComponentsFrom(cases, GroupKeys(cases), config)

\* Mutant: the size check is off by one.
MeetsMinSize_OffByOne(cluster_cases, config) ==
    Len(cluster_cases) >= config.min_cluster_size - 1

\* len(cluster_case_ids) >= config.min_cluster_size
MeetsMinSize(cluster_cases, config) ==
    Len(cluster_cases) >= config.min_cluster_size

WithinSolveRate_Always(cluster, config) == TRUE

\* cluster.solve_rate <= config.max_solve_rate
WithinSolveRate(cluster, config) ==
    cluster.solve_rate <= config.max_solve_rate

\* f"{county_key.replace(':', '_')}_{timestamp}", kept as its three parts.
ClusterId(county_key, timestamp) ==
    <<county_key[1], county_key[2], timestamp>>

RECURSIVE MinOf(_)
MinOf(s) == IF Len(s) = 1 THEN s[1]
            ELSE LET m == MinOf(Tail(s)) IN IF s[1] <= m THEN s[1] ELSE m

RECURSIVE MaxOf(_)
MaxOf(s) == IF Len(s) = 1 THEN s[1]
            ELSE LET m == MaxOf(Tail(s)) IN IF s[1] >= m THEN s[1] ELSE m

\* max(counts.items(), key=count)[0]: the first label, in order of first
\* occurrence, whose count is the largest.
MostCommon(labels) ==
    LET count(l) == Cardinality({i \in 1..Len(labels) : labels[i] = l})
        best == CHOOSE i \in 1..Len(labels) :
                    /\ \A j \in 1..Len(labels) :
                            count(labels[j]) <= count(labels[i])
                    /\ \A j \in 1..(i - 1) :
                            count(labels[j]) < count(labels[i])
    IN  labels[best]

\* Mutant: the solve rate is rounded to a whole percent.
_build_cluster_result_WholePercent(county_key, cases, similarities, timestamp) ==
    LET total_cases == Len(cases)
        solved_cases == Cardinality({i \in 1..Len(cases) : cases[i].solved = 1})
        valid_ages == SelectSeq([i \in 1..Len(cases) |-> cases[i].vic_age],
                                LAMBDA a : a # UnknownAge)
    IN  [cluster_id |-> ClusterId(county_key, timestamp),
         location_description |-> county_key,
         cases |-> cases,
         total_cases |-> total_cases,
         solved_cases |-> solved_cases,
         unsolved_cases |-> total_cases - solved_cases,
         solve_rate |-> IF total_cases > 0
                        THEN RoundDiv(solved_cases * 100, total_cases) * 10
                        ELSE 0,
         avg_similarity_score |->
            IF similarities # <<>>
            THEN RoundDiv(SumSeq(similarities), Len(similarities))
            ELSE 0,
         first_year |-> MinOf([i \in 1..Len(cases) |-> cases[i].year]),
         last_year |-> MaxOf([i \in 1..Len(cases) |-> cases[i].year]),
         primary_weapon |->
            MostCommon([i \in 1..Len(cases) |-> cases[i].weapon]),
         primary_victim_sex |->
            MostCommon([i \in 1..Len(cases) |-> cases[i].vic_sex]),
         avg_victim_age |->
            IF valid_ages # <<>>
            THEN RoundDiv(SumSeq(valid_ages) * 10, Len(valid_ages))
            ELSE 0]

_build_cluster_result(county_key, cases, similarities, timestamp) ==
    LET total_cases == Len(cases)
        solved_cases == Cardinality({i \in 1..Len(cases) : cases[i].solved = 1})
        valid_ages == SelectSeq([i \in 1..Len(cases) |-> cases[i].vic_age],
                                LAMBDA a : a # UnknownAge)
    IN  [cluster_id |-> ClusterId(county_key, timestamp),
         location_description |-> county_key,
         cases |-> cases,
         total_cases |-> total_cases,
         solved_cases |-> solved_cases,
         unsolved_cases |-> total_cases - solved_cases,
         solve_rate |-> IF total_cases > 0
                        THEN RoundDiv(solved_cases * 1000, total_cases)
                        ELSE 0,
         avg_similarity_score |->
            IF similarities # <<>>
            THEN RoundDiv(SumSeq(similarities), Len(similarities))
            ELSE 0,
         first_year |-> MinOf([i \in 1..Len(cases) |-> cases[i].year]),
         last_year |-> MaxOf([i \in 1..Len(cases) |-> cases[i].year]),
         primary_weapon |->
            MostCommon([i \in 1..Len(cases) |-> cases[i].weapon]),
         primary_victim_sex |->
            MostCommon([i \in 1..Len(cases) |-> cases[i].vic_sex]),
         avg_victim_age |->
            IF valid_ages # <<>>
            THEN RoundDiv(SumSeq(valid_ages) * 10, Len(valid_ages))
            ELSE 0]

\* Mutant: a sort that is not stable, a cluster goes before its equals.
RECURSIVE InsertSorted_TiesFirst(_, _)
InsertSorted_TiesFirst(sorted, c) ==
    IF sorted = <<>> THEN <<c>>
    ELSE IF Head(sorted).unsolved_cases > c.unsolved_cases
    THEN <<Head(sorted)>> \o InsertSorted_TiesFirst(Tail(sorted), c)
    ELSE <<c>> \o sorted

\* list.sort(key=lambda c: c.unsolved_cases, reverse=True): a stable sort,
\* equal keys keep their order.
RECURSIVE InsertSorted(_, _)
InsertSorted(sorted, c) ==
    IF sorted = <<>> THEN <<c>>
    ELSE IF Head(sorted).unsolved_cases >= c.unsolved_cases
    THEN <<Head(sorted)>> \o InsertSorted(Tail(sorted), c)
    ELSE <<c>> \o sorted

RECURSIVE SortByUnsolvedFrom(_, _)
SortByUnsolvedFrom(clusters, acc) ==
    IF clusters = <<>> THEN acc
    ELSE SortByUnsolvedFrom(Tail(clusters), InsertSorted(acc, Head(clusters)))

\* Mutant: the list is returned in discovery order.
SortByUnsolved_Unsorted(all_clusters) == all_clusters

SortByUnsolved(all_clusters) == SortByUnsolvedFrom(all_clusters, <<>>)

(***************************************************************************)
(* Requests.  Each is one walk through analyze_clusters, run_cluster_      *)
(* analysis, detect_clusters and persist_cluster_results; pc is its        *)
(* position.  A direct call of detect_clusters starts at pc = "detect".    *)
(***************************************************************************)
Requests == {"r1", "r2"}

NoResponse == [status |-> 0]

\* detect_clusters, up to the first component: grouping, scoring, pairs,
\* adjacency and traversal read nothing but the arguments.
DetectBegin(r) ==
    /\ req[r].pc = "detect"
    /\ IF DetectRaises(req[r].cases, req[r].config)
       THEN req' = [req EXCEPT ![r].pc = "raised",
                               ![r].raised = "ZeroDivisionError"]
       ELSE req' = [req EXCEPT
                        ![r].pc = "build",
                        ![r].similar_pairs = AllSimilarPairs(req[r].cases,
                                                             req[r].config),
                        ![r].pending = AllComponents(req[r].cases,
                                                     req[r].config)]
    /\ UNCHANGED <<call, ret, now, cluster_results, cluster_membership, writer>>

\* The tail of one pass of the loop over adjacency: the size check, the
\* build (which reads the clock) and the solve-rate filter.
BuildCluster(r) ==
    /\ req[r].pc = "build"
    /\ req[r].pending # <<>>
    /\ LET comp == Head(req[r].pending)
       IN  IF MeetsMinSize(comp.cluster_cases, req[r].config)
           THEN \E timestamp \in now..MaxClock :
                  LET cluster == _build_cluster_result(
                                     comp.county_key, comp.cluster_cases,
                                     comp.cluster_similarities, timestamp)
                  IN  /\ now' = timestamp
                      /\ req' = [req EXCEPT
                            ![r].pending = Tail(@),
                            ![r].all_clusters =
                                IF WithinSolveRate(cluster, req[r].config)
                                THEN Append(@, cluster) ELSE @]
           ELSE /\ now' = now
                /\ req' = [req EXCEPT ![r].pending = Tail(@)]
    /\ UNCHANGED <<call, ret, cluster_results, cluster_membership, writer>>

\* The sort and the return.
DetectEnd(r) ==
    /\ req[r].pc = "build"
    /\ req[r].pending = <<>>
    /\ req' = [req EXCEPT ![r].pc = "persist",
                          ![r].clusters = SortByUnsolved(req[r].all_clusters)]
    /\ UNCHANGED <<call, ret, now, cluster_results, cluster_membership, writer>>

(***************************************************************************)
(* Inputs.  Case records carry the fields clustering reads.                *)
(***************************************************************************)
Case(id, state, county_fips_code, loc, year, solved, weapon_code, weapon, vic_sex_code, vic_sex, vic_age, vic_race) ==
    [id |-> id, state |-> state, county_fips_code |-> county_fips_code,
     latitude |-> loc[1], longitude |-> loc[2], year |-> year,
     solved |-> solved, weapon_code |-> weapon_code, weapon |-> weapon,
     vic_sex_code |-> vic_sex_code, vic_sex |-> vic_sex,
     vic_age |-> vic_age, vic_race |-> vic_race]

At(point) == <<Some(point.lat), Some(point.lon)>>
NoLocation == <<None, None>>

\* Two similar pairs in one county (P1~P2 at 96.8, P3~P4 at 82.5, 35.0
\* across), a twin of P1 in another state (P5), and two cases without county
\* or coordinates that differ in every factor (P6, P7: total 0.0).
P1 == Case("IL-1", "ILLINOIS", Some(17031), At(Chicago), 1990, 0,
           12, "Handgun", 1, "Male", 25, "White")
P2 == Case("IL-2", "ILLINOIS", Some(17031), At(Chicago), 1991, 0,
           12, "Handgun", 1, "Male", 30, "White")
P3 == Case("IL-3", "ILLINOIS", Some(17031), At(Near), 2001, 1,
           20, "Knife", 2, "Female", 60, "Black")
P4 == Case("IL-4", "ILLINOIS", Some(17031), NoLocation, 2001, 0,
           21, "Other cutting", 2, "Female", 999, "Black")
P5 == Case("IN-5", "INDIANA", Some(17031), At(Chicago), 1990, 1,
           12, "Handgun", 1, "Male", 25, "White")
P6 == Case("IL-6", "ILLINOIS", None, NoLocation, 1990, 0,
           12, "Handgun", 1, "Male", 25, "White")
P7 == Case("IL-7", "ILLINOIS", None, NoLocation, 2001, 1,
           20, "Knife", 2, "Female", 60, "Black")

Pool == {P1, P2, P3, P4, P5, P6, P7}

ZeroWeights ==
    [geographic |-> 0, weapon |-> 0, victim_sex |-> 0,
     victim_age |-> 0, temporal |-> 0, victim_race |-> 0]

\* Lists of distinct cases (ids are primary keys of table cases).
CaseLists(pool, maxlen) ==
    {s \in UNION {[1..n -> pool] : n \in 0..maxlen} :
        \A i, j \in 1..Len(s) : i # j => s[i] # s[j]}

DetectConfigs ==
    [min_cluster_size : {1, 2, 3},
     max_solve_rate : {0, 330, 1000},
     similarity_threshold : {0, 700},
     weights : {DefaultWeights, ZeroWeights}]

EmptyTables == [cluster_results |-> {}, cluster_membership |-> {}]

IdleRequest ==
    [pc |-> "idle", cases |-> <<>>, config |-> [min_cluster_size |-> 5,
        max_solve_rate |-> 330, similarity_threshold |-> 700,
        weights |-> DefaultWeights],
     similar_pairs |-> <<>>, pending |-> <<>>, all_clusters |-> <<>>,
     clusters |-> <<>>, raised |-> "none", force |-> FALSE, case_count |-> 0,
     persisted |-> 0, tx |-> EmptyTables, response |-> NoResponse]

DirectCall(cases, config) ==
    [IdleRequest EXCEPT !.pc = "detect", !.cases = cases, !.config = config]

NoCall == [fn |-> "none"]
Pending == [raised |-> "pending"]

\* detect_clusters called directly, as the unit tests call it.
InitDetect ==
    /\ call = NoCall
    /\ ret = Pending
    /\ now = 0
    /\ cluster_results = {}
    /\ cluster_membership = {}
    /\ writer = None
    /\ \E cases \in CaseLists(Pool, MaxCases), config \in DetectConfigs :
          req = [r \in Requests |->
                    IF r = "r1" THEN DirectCall(cases, config)
                    ELSE IdleRequest]

NextDetect ==
    \E r \in Requests : DetectBegin(r) \/ BuildCluster(r) \/ DetectEnd(r)

SpecDetect == InitDetect /\ [][NextDetect]_vars

(***************************************************************************)
(* calculate_similarity called on its own: one call on a pair drawn from   *)
(* the product of the scoring fields.                                      *)
(***************************************************************************)
ScoreCase(id, county_fips_code, loc, weapon_code, vic_sex_code, vic_age, year, vic_race) ==
    Case(id, "ILLINOIS", county_fips_code, loc, year, 0, weapon_code,
         "weapon", vic_sex_code, "sex", vic_age, vic_race)

\* 77 and 78 are codes outside every weapon category.
ScoreCases1 ==
    {ScoreCase("A", f, l, w, 1, a, 1990, "White") :
        f \in {None, Some(17031)}, l \in {NoLocation, At(Chicago)},
        w \in {12, 77}, a \in {25, UnknownAge}}

ScoreCases2 ==
    {ScoreCase("B", f, l, w[1], w[2], a[1], a[2], c) :
        f \in {None, Some(17031), Some(6037)},
        l \in {NoLocation, <<Some(Chicago.lat), None>>, At(Chicago),
               At(Near), At(LA)},
        w \in {12, 13, 20, 77, 78} \X {1, 2},
        a \in {25, 30, 45, UnknownAge} \X {1990, 1991, 2000},
        c \in {"White", "Black"}}

UnevenWeights ==
    [geographic |-> 2, weapon |-> 1, victim_sex |-> 0,
     victim_age |-> 1, temporal |-> 0, victim_race |-> 0]

ScoreWeights == {DefaultWeights, ZeroWeights, UnevenWeights}

InitScore ==
    /\ \E case1 \in ScoreCases1, case2 \in ScoreCases2, weights \in ScoreWeights :
          call = [fn |-> "calculate_similarity", case1 |-> case1,
                  case2 |-> case2, weights |-> weights]
    /\ ret = Pending
    /\ now = 0
    /\ req = [r \in Requests |-> IdleRequest]
    /\ cluster_results = {}
    /\ cluster_membership = {}
    /\ writer = None

CalculateSimilarity ==
    /\ call.fn = "calculate_similarity"
    /\ ret = Pending
    /\ ret' = calculate_similarity(call.case1, call.case2, call.weights)
    /\ UNCHANGED <<call, now, req, cluster_results, cluster_membership, writer>>

NextScore == CalculateSimilarity

SpecScore == InitScore /\ [][NextScore]_vars

(***************************************************************************)
(* The dataset-size gate.  classify_dataset_tier, estimate_clustering_time *)
(* and the two thresholds are imported by routes/clusters.py from modules  *)
(* whose text does not hold them; they follow the specification (4.4) and  *)
(* the docstrings of the two routes.                                       *)
(***************************************************************************)
TIER_1_THRESHOLD == 10000
TIER_2_THRESHOLD == 50000

\* Mutant: the thresholds are compared with <=.
classify_dataset_tier_Inclusive(case_count) ==
    IF case_count <= TIER_1_THRESHOLD THEN 1
    ELSE IF case_count <= TIER_2_THRESHOLD THEN 2
    ELSE 3

classify_dataset_tier(case_count) ==
    IF case_count < TIER_1_THRESHOLD THEN 1
    ELSE IF case_count < TIER_2_THRESHOLD THEN 2
    ELSE 3

\* Seconds in tenths; the preflight docstring shows 62.5 s for 25,000 cases.
estimate_clustering_time(case_count) == case_count \div 40

InitTier ==
    /\ \E case_count \in 0..MaxCaseCount :
          call = [fn |-> "classify_dataset_tier", case_count |-> case_count]
    /\ ret = Pending
    /\ now = 0
    /\ req = [r \in Requests |-> IdleRequest]
    /\ cluster_results = {}
    /\ cluster_membership = {}
    /\ writer = None

ClassifyDatasetTier ==
    /\ call.fn = "classify_dataset_tier"
    /\ ret = Pending
    /\ ret' = [raised |-> "none", tier |-> classify_dataset_tier(call.case_count)]
    /\ UNCHANGED <<call, now, req, cluster_results, cluster_membership, writer>>

NextTier == ClassifyDatasetTier

SpecTier == InitTier /\ [][NextTier]_vars

(***************************************************************************)
(* routes/clusters.py: POST /api/clusters/analyze                          *)
(***************************************************************************)
\* Mutant: force is looked at before the tier.
TierVerdict_ForceFirst(tier, force) ==
    IF force THEN "proceed"
    ELSE IF tier = 3 THEN "dataset_too_large"
    ELSE IF tier = 2 THEN "confirmation_required"
    ELSE "proceed"

\* The two tier checks of analyze_clusters, in their order.
TierVerdict(tier, force) ==
    IF tier = 3 THEN "dataset_too_large"
    ELSE IF tier = 2 /\ ~force THEN "confirmation_required"
    ELSE "proceed"

AnalyzeClusters(r) ==
    /\ req[r].pc = "analyze"
    /\ LET case_count == req[r].case_count
           tier == classify_dataset_tier(case_count)
           verdict == TierVerdict(tier, req[r].force)
       IN  req' = [req EXCEPT
              ![r].pc = IF verdict = "proceed" THEN "run" ELSE "done",
              ![r].response =
                 IF verdict = "dataset_too_large"
                 THEN [status |-> 400, error |-> "dataset_too_large",
                       case_count |-> case_count]
                 ELSE IF verdict = "confirmation_required"
                 THEN [status |-> 400, error |-> "confirmation_required",
                       case_count |-> case_count,
                       estimated_time_seconds |->
                           estimate_clustering_time(case_count)]
                 ELSE @]
    /\ UNCHANGED <<call, ret, now, cluster_results, cluster_membership, writer>>

(***************************************************************************)
(* services/cluster_service.py                                             *)
(***************************************************************************)
ClusterSummaryResponse(c) ==
    [cluster_id |-> c.cluster_id,
     location_description |-> c.location_description,
     total_cases |-> c.total_cases,
     solved_cases |-> c.solved_cases,
     unsolved_cases |-> c.unsolved_cases,
     solve_rate |-> c.solve_rate,
     avg_similarity_score |-> c.avg_similarity_score,
     first_year |-> c.first_year,
     last_year |-> c.last_year,
     primary_weapon |-> c.primary_weapon,
     primary_victim_sex |-> c.primary_victim_sex,
     avg_victim_age |-> c.avg_victim_age]

ClusterAnalysisResponse(clusters, total_cases_analyzed) ==
    [status |-> 200,
     clusters |-> [k \in 1..Len(clusters) |-> ClusterSummaryResponse(clusters[k])],
     total_clusters |-> Len(clusters),
     total_cases_analyzed |-> total_cases_analyzed]

\* run_cluster_analysis up to the call of detect_clusters: the fetch, the
\* early return on no case, the configuration.
RunClusterAnalysis(r) ==
    /\ req[r].pc = "run"
    /\ IF Len(req[r].cases) = 0
       THEN req' = [req EXCEPT ![r].pc = "done",
                               ![r].response = ClusterAnalysisResponse(<<>>, 0)]
       ELSE req' = [req EXCEPT ![r].pc = "detect"]
    /\ UNCHANGED <<call, ret, now, cluster_results, cluster_membership, writer>>

\* analyze_clusters' except clause: any exception of the analysis is a 500.
AnalysisFailed(r) ==
    /\ req[r].pc = "raised"
    /\ req[r].response = NoResponse
    /\ req' = [req EXCEPT ![r].pc = "done", ![r].response = [status |-> 500]]
    /\ UNCHANGED <<call, ret, now, cluster_results, cluster_membership, writer>>

\* The row persist_cluster_results writes to cluster_results.
ClusterRow(cluster, config) ==
    [cluster_id |-> cluster.cluster_id,
     geographic_mode |-> "county",
     config_json |-> config,
     location_description |-> cluster.location_description,
     total_cases |-> cluster.total_cases,
     solved_cases |-> cluster.solved_cases,
     unsolved_cases |-> cluster.unsolved_cases,
     solve_rate |-> cluster.solve_rate,
     avg_similarity_score |-> cluster.avg_similarity_score,
     first_year |-> cluster.first_year,
     last_year |-> cluster.last_year,
     primary_weapon |-> cluster.primary_weapon,
     primary_victim_sex |-> cluster.primary_victim_sex,
     avg_victim_age |-> cluster.avg_victim_age]

MembershipRows(cluster) ==
    {[cluster_id |-> cluster.cluster_id,
      case_id |-> cluster.cases[i].id,
      similarity_score |-> cluster.avg_similarity_score] :
        i \in 1..Len(cluster.cases)}

\* INSERT OR REPLACE INTO cluster_results: cluster_id is UNIQUE, so a row with
\* the same cluster_id is deleted first, and with foreign_keys = ON its
\* memberships go with it (ON DELETE CASCADE).
InsertOrReplaceCluster(tables, row) ==
    [cluster_results |->
        {x \in tables.cluster_results : x.cluster_id # row.cluster_id}
            \cup {row},
     cluster_membership |->
        IF \E x \in tables.cluster_results : x.cluster_id = row.cluster_id
        THEN {m \in tables.cluster_membership : m.cluster_id # row.cluster_id}
        ELSE tables.cluster_membership]

\* INSERT OR REPLACE INTO cluster_membership, for each case of the cluster:
\* the primary key is (cluster_id, case_id).
InsertOrReplaceMemberships(tables, rows) ==
    [tables EXCEPT !.cluster_membership =
        {m \in @ : ~\E n \in rows : /\ n.cluster_id = m.cluster_id
                                   /\ n.case_id = m.case_id}
            \cup rows]

\* One pass of persist_cluster_results' loop.  The first INSERT opens the
\* write transaction; SQLite admits one writer, the other waits.
PersistCluster(r) ==
    /\ req[r].pc = "persist"
    /\ req[r].persisted < Len(req[r].clusters)
    /\ writer \in {None, Some(r)}
    /\ LET cluster == req[r].clusters[req[r].persisted + 1]
           before == IF writer = None
                     THEN [cluster_results |-> cluster_results,
                           cluster_membership |-> cluster_membership]
                     ELSE req[r].tx
           after == InsertOrReplaceMemberships(
                        InsertOrReplaceCluster(before,
                            ClusterRow(cluster, req[r].config)),
                        MembershipRows(cluster))
       IN  req' = [req EXCEPT ![r].tx = after, ![r].persisted = @ + 1]
    /\ writer' = Some(r)
    /\ UNCHANGED <<call, ret, now, cluster_results, cluster_membership>>

\* get_db_connection's commit on leaving the with block, then the response.
Commit(r) ==
    /\ req[r].pc = "persist"
    /\ req[r].persisted = Len(req[r].clusters)
    /\ IF writer = Some(r)
       THEN /\ cluster_results' = req[r].tx.cluster_results
            /\ cluster_membership' = req[r].tx.cluster_membership
            /\ writer' = None
       ELSE UNCHANGED <<cluster_results, cluster_membership, writer>>
    /\ req' = [req EXCEPT
                  ![r].pc = "done",
                  ![r].tx = EmptyTables,
                  ![r].response = ClusterAnalysisResponse(req[r].clusters,
                                                          Len(req[r].cases))]
    /\ UNCHANGED <<call, ret, now>>

\* An INSERT raises (sqlite3.OperationalError: the lock wait timed out, the
\* disk failed): get_db_connection rolls back and re-raises.
PersistFails(r) ==
    /\ req[r].pc = "persist"
    /\ req[r].persisted < Len(req[r].clusters)
    /\ writer' = IF writer = Some(r) THEN None ELSE writer
    /\ req' = [req EXCEPT ![r].pc = "raised", ![r].tx = EmptyTables,
                          ![r].raised = "OperationalError"]
    /\ UNCHANGED <<call, ret, now, cluster_results, cluster_membership>>

\* Fetched case lists of the requests: three or four connected cases of one
\* county, or none.
P8 == Case("IL-8", "ILLINOIS", Some(17031), At(Chicago), 1990, 0,
           12, "Handgun", 1, "Male", 30, "White")
P9 == Case("IL-9", "ILLINOIS", Some(17031), At(Chicago), 1991, 1,
           12, "Handgun", 1, "Male", 25, "White")

FetchedLists == {<<>>, <<P1, P2, P8>>, <<P1, P2, P8, P9>>}

\* min_cluster_size is validated ge=3 by ClusterAnalysisRequest.
RequestConfigs ==
    [min_cluster_size : {3},
     max_solve_rate : {330},
     similarity_threshold : {700},
     weights : {DefaultWeights, ZeroWeights}]

\* The count query and the fetch are two reads.  A count in Tier 1 is the
\* length of the fetched list; the Tier 2 and Tier 3 counts stand for
\* datasets longer than the lists of the model.
ApiRequest(cases, config, case_count, force) ==
    [IdleRequest EXCEPT !.pc = "analyze", !.cases = cases, !.config = config,
                        !.case_count = case_count, !.force = force]

ApiRequests ==
    {ApiRequest(cases, config, case_count, force) :
        cases \in FetchedLists, config \in RequestConfigs,
        case_count \in {0, 3, 4, TIER_1_THRESHOLD, TIER_2_THRESHOLD},
        force \in BOOLEAN}

Init ==
    /\ call = NoCall
    /\ ret = Pending
    /\ now = 0
    /\ cluster_results = {}
    /\ cluster_membership = {}
    /\ writer = None
    /\ req \in [Requests -> {q \in ApiRequests :
                    q.case_count < TIER_1_THRESHOLD
                        => q.case_count = Len(q.cases)}]

Next ==
    \E r \in Requests :
        \/ AnalyzeClusters(r)
        \/ RunClusterAnalysis(r)
        \/ DetectBegin(r)
        \/ BuildCluster(r)
        \/ DetectEnd(r)
        \/ PersistCluster(r)
        \/ Commit(r)
        \/ PersistFails(r)
        \/ AnalysisFailed(r)

Spec == Init /\ [][Next]_vars

(***************************************************************************)
(* Properties                                                              *)
(***************************************************************************)
Members(cluster) == {cluster.cases[i] : i \in 1..Len(cluster.cases)}

\* C1: every cluster detect_clusters returns has total_cases >=
\* config.min_cluster_size and solve_rate <= config.max_solve_rate.
C1_ClustersMeetThresholds ==
    \A r \in Requests : \A k \in 1..Len(req[r].clusters) :
        /\ req[r].clusters[k].total_cases >= req[r].config.min_cluster_size
        /\ req[r].clusters[k].solve_rate <= req[r].config.max_solve_rate

\* A call that returned one cluster and dropped another component: P3, P4
\* is a component of size 2 with solve rate 50.0.
C1_Witness ==
    \E r \in Requests :
        /\ req[r].pc = "persist"
        /\ req[r].config.min_cluster_size = 2
        /\ req[r].config.max_solve_rate = 330
        /\ Len(req[r].clusters) = 1
        /\ Len(AllComponents(req[r].cases, req[r].config)) = 2

\* C2: the members of a returned cluster share state and county identifier
\* (one geographic key); cases of different keys are never clustered together.
C2_MembersShareKey ==
    \A r \in Requests : \A k \in 1..Len(req[r].clusters) :
        \A a, b \in Members(req[r].clusters[k]) :
            /\ a.state = b.state
            /\ a.county_fips_code = b.county_fips_code

\* A returned cluster and a case of another key that scores at or above the
\* threshold against one of its members, and is not in it.
C2_Witness ==
    \E r \in Requests :
        /\ req[r].pc = "persist"
        /\ \E k \in 1..Len(req[r].clusters), i \in 1..Len(req[r].cases) :
              LET x == req[r].cases[i]
              IN  /\ x \notin Members(req[r].clusters[k])
                  /\ \E m \in Members(req[r].clusters[k]) :
                        /\ x.state # m.state
                        /\ calculate_similarity(x, m, req[r].config.weights).total
                              >= req[r].config.similarity_threshold
                        /\ req[r].config.similarity_threshold > 0

\* C5: the returned list is in descending order of unsolved_cases.
C5_SortedByUnsolved ==
    \A r \in Requests :
        req[r].pc = "persist" =>
            \A k \in 1..(Len(req[r].clusters) - 1) :
                req[r].clusters[k].unsolved_cases
                    >= req[r].clusters[k + 1].unsolved_cases

\* A call whose sort changed the discovery order.
C5_Witness ==
    \E r \in Requests :
        /\ req[r].pc = "persist"
        /\ Len(req[r].clusters) = 2
        /\ req[r].clusters # req[r].all_clusters

ScoreCallDone == call.fn = "calculate_similarity" /\ ret # Pending

\* C6: with weights whose total() is 0, calculate_similarity ends in
\* ZeroDivisionError for every pair and returns no score.
C6_ZeroTotalRaises ==
    (ScoreCallDone /\ total(call.weights) = 0) =>
        /\ ret.raised = "ZeroDivisionError"
        /\ "total" \notin DOMAIN ret

C6_Witness ==
    /\ ScoreCallDone
    /\ total(call.weights) = 0
    /\ ret.raised = "ZeroDivisionError"

SameScoringFields(a, b) ==
    /\ a.county_fips_code = b.county_fips_code
    /\ a.latitude = b.latitude
    /\ a.longitude = b.longitude
    /\ a.weapon_code = b.weapon_code
    /\ a.vic_sex_code = b.vic_sex_code
    /\ a.vic_age = b.vic_age
    /\ a.year = b.year
    /\ a.vic_race = b.vic_race

AllFactors100 ==
    /\ ret.raised = "none"
    /\ \A f \in DOMAIN ret.scores : ret.scores[f] = 1000
    /\ ret.total = 1000

\* C7 as stated: any two cases with identical scoring fields score 100.0 in
\* every factor and in total, for any weights of positive total.
C7_Original ==
    (/\ ScoreCallDone
     /\ total(call.weights) > 0
     /\ SameScoringFields(call.case1, call.case2)) => AllFactors100

Located(c) ==
    \/ c.county_fips_code # None
    \/ c.latitude # None /\ c.longitude # None

\* C7 amended: two cases with identical scoring fields, whose victim age is
\* not the sentinel 999 and which have a county identifier or both
\* coordinates, score 100.0 in every factor and in total, for any weights of
\* positive total.
C7_IdenticalLocatedKnownAge ==
    (/\ ScoreCallDone
     /\ total(call.weights) > 0
     /\ SameScoringFields(call.case1, call.case2)
     /\ call.case1.vic_age # UnknownAge
     /\ Located(call.case1)) => AllFactors100

\* Identical cases that have a county identifier and no coordinates.
C7_Witness ==
    /\ ScoreCallDone
    /\ total(call.weights) > 0
    /\ SameScoringFields(call.case1, call.case2)
    /\ call.case1.vic_age # UnknownAge
    /\ call.case1.county_fips_code # None
    /\ call.case1.latitude = None
    /\ AllFactors100

AllFactorsMinimum(a, b) ==
    \A f \in DOMAIN FactorScores(a, b) : FactorScores(a, b)[f] = 0

HasEdge(r, a, b) ==
    \E k \in 1..Len(req[r].similar_pairs) :
        {req[r].similar_pairs[k][1], req[r].similar_pairs[k][2]} = {a.id, b.id}

Scored(r) == req[r].pc \in {"build", "persist"}

C9_ClusterIdsUnique ==
    \A r1, r2 \in Requests :
        \A k1 \in 1..Len(req[r1].all_clusters),
           k2 \in 1..Len(req[r2].all_clusters) :
            (r1 # r2 \/ k1 # k2) =>
                req[r1].all_clusters[k1].cluster_id
                    # req[r2].all_clusters[k2].cluster_id

\* C10: once both requests have answered, every cluster of a successful
\* response is stored as that request produced it: its cluster_results row
\* and exactly its cluster_membership rows.
C10_PersistedAsRunAlone ==
    (\A r \in Requests : req[r].pc = "done") =>
        \A r \in Requests :
            req[r].response.status = 200 =>
                \A k \in 1..Len(req[r].clusters) :
                    LET c == req[r].clusters[k]
                    IN  /\ ClusterRow(c, req[r].config) \in cluster_results
                        /\ {m \in cluster_membership :
                                m.cluster_id = c.cluster_id}
                              = MembershipRows(c)

Proceeds(case_count, force) ==
    \/ case_count < 10000
    \/ case_count < 50000 /\ force

\* C3: run_cluster_analysis is reached only for a Tier 1 count or a Tier 2
\* count with force; a Tier 3 count is answered dataset_too_large whatever
\* force is; a Tier 2 count without force is answered confirmation_required
\* with a time estimate.
C3_TierGate ==
    \A r \in Requests :
        /\ req[r].pc \in {"run", "detect", "build", "persist", "raised"}
              => Proceeds(req[r].case_count, req[r].force)
        /\ (req[r].pc = "done" /\ req[r].case_count >= 50000) =>
              /\ req[r].response.status = 400
              /\ req[r].response.error = "dataset_too_large"
        /\ (/\ req[r].pc = "done"
            /\ req[r].case_count >= 10000
            /\ req[r].case_count < 50000
            /\ ~req[r].force) =>
              /\ req[r].response.status = 400
              /\ req[r].response.error = "confirmation_required"
              /\ "estimated_time_seconds" \in DOMAIN req[r].response
        /\ (req[r].pc = "done" /\ req[r].response.status # 400)
              => Proceeds(req[r].case_count, req[r].force)

\* A forced Tier 3 request refused while a forced Tier 2 request is running.
C3_Witness ==
    \E r1, r2 \in Requests :
        /\ req[r1].pc = "done"
        /\ req[r1].force
        /\ req[r1].case_count >= 50000
        /\ req[r1].response.error = "dataset_too_large"
        /\ req[r2].pc = "detect"
        /\ req[r2].force
        /\ req[r2].case_count = 10000

TierCallDone == call.fn = "classify_dataset_tier" /\ ret # Pending

get_cluster_detail(cluster_id) ==
    IF ~\E x \in cluster_results : x.cluster_id = cluster_id
    THEN None
    ELSE LET cluster_row == CHOOSE x \in cluster_results :
                                x.cluster_id = cluster_id
             case_rows == {m \in cluster_membership :
                                m.cluster_id = cluster_id}
         IN  Some([cluster_id |-> cluster_row.cluster_id,
                   location_description |-> cluster_row.location_description,
                   total_cases |-> cluster_row.total_cases,
                   solved_cases |-> cluster_row.solved_cases,
                   unsolved_cases |-> cluster_row.unsolved_cases,
                   solve_rate |-> cluster_row.solve_rate,
                   avg_similarity_score |-> cluster_row.avg_similarity_score,
                   first_year |-> cluster_row.first_year,
                   last_year |-> cluster_row.last_year,
                   primary_weapon |-> cluster_row.primary_weapon,
                   primary_victim_sex |-> cluster_row.primary_victim_sex,
                   avg_victim_age |-> cluster_row.avg_victim_age,
                   case_ids |-> {m.case_id : m \in case_rows}])

\* The statistics of a detail response, without its case ids.
DetailStatistics(detail) ==
    [f \in DOMAIN detail \ {"case_ids"} |-> detail[f]]

\* C11: for every cluster of a successful response of a finished request,
\* the number of cluster_membership rows under its cluster_id is its
\* total_cases, and get_cluster_detail for the id returns the statistics of
\* the response and exactly total_cases case ids.
C11_MembershipsMatchResponse ==
    \A r \in Requests :
        (req[r].pc = "done" /\ req[r].response.status = 200) =>
            \A k \in 1..Len(req[r].response.clusters) :
                LET summary == req[r].response.clusters[k]
                    detail == get_cluster_detail(summary.cluster_id)
                IN  /\ Cardinality({m \in cluster_membership :
                            m.cluster_id = summary.cluster_id})
                          = summary.total_cases
                    /\ detail # None
                    /\ DetailStatistics(Val(detail)) = summary
                    /\ Cardinality(Val(detail).case_ids) = summary.total_cases

(***************************************************************************)
(* Empty results: detect_clusters called directly (r1) next to             *)
(* run_cluster_analysis called on a filter that matches no case (r2).      *)
(***************************************************************************)
EmptyPool == {P1, P2, P3, P4, P6}

ServiceCall(cases, config) ==
    [IdleRequest EXCEPT !.pc = "run", !.cases = cases, !.config = config]

InitEmpty ==
    /\ call = NoCall
    /\ ret = Pending
    /\ now = 0
    /\ cluster_results = {}
    /\ cluster_membership = {}
    /\ writer = None
    /\ \E cases \in CaseLists(EmptyPool, MaxCases), config \in DetectConfigs,
          request \in RequestConfigs :
          req = [r \in Requests |->
                    IF r = "r1" THEN DirectCall(cases, config)
                    ELSE ServiceCall(<<>>, request)]

NextEmpty ==
    \E r \in Requests :
        \/ RunClusterAnalysis(r)
        \/ DetectBegin(r)
        \/ BuildCluster(r)
        \/ DetectEnd(r)

SpecEmpty == InitEmpty /\ [][NextEmpty]_vars

\* No pair of the cases scores at or above the threshold.
NoPairReaches(cases, config) ==
    \A i, j \in 1..Len(cases) :
        i < j => calculate_similarity(cases[i], cases[j],
                                      config.weights).total
                     < config.similarity_threshold

\* No connected component has both the minimum size and a solve rate within
\* the maximum.
NoComponentQualifies(cases, config) ==
    LET comps == AllComponents(cases, config)
    IN  \A k \in 1..Len(comps) :
            LET n == Len(comps[k].cluster_cases)
                solved == Cardinality({i \in 1..n :
                              comps[k].cluster_cases[i].solved = 1})
            IN  \/ n < config.min_cluster_size
                \/ RoundDiv(solved * 1000, n) > config.max_solve_rate

EmptyCase(r) ==
    \/ req[r].cases = <<>>
    \/ /\ total(req[r].config.weights) > 0
       /\ \/ NoPairReaches(req[r].cases, req[r].config)
          \/ NoComponentQualifies(req[r].cases, req[r].config)

\* C12: detect_clusters on an empty list, on a list no pair of which reaches
\* the threshold, or on a list no component of which meets the size and
\* solve-rate thresholds raises nothing and returns the empty list;
\* run_cluster_analysis on zero cases answers total_clusters 0 and
\* total_cases_analyzed 0.
C12_EmptyResultsSucceed ==
    \A r \in Requests :
        /\ EmptyCase(r) =>
              /\ req[r].raised = "none"
              /\ req[r].pc # "raised"
              /\ req[r].all_clusters = <<>>
              /\ req[r].clusters = <<>>
        /\ (req[r].pc = "done" /\ req[r].cases = <<>>) =>
              /\ req[r].response.status = 200
              /\ req[r].response.clusters = <<>>
              /\ req[r].response.total_clusters = 0
              /\ req[r].response.total_cases_analyzed = 0

\* detect_clusters returned on a list with a connected component that fails
\* the thresholds, and run_cluster_analysis answered for zero cases.
C12_Witness ==
    /\ req["r1"].pc = "persist"
    /\ total(req["r1"].config.weights) > 0
    /\ AllComponents(req["r1"].cases, req["r1"].config) # <<>>
    /\ NoComponentQualifies(req["r1"].cases, req["r1"].config)
    /\ req["r1"].clusters = <<>>
    /\ req["r2"].pc = "done"
    /\ req["r2"].response.total_clusters = 0

\* Both codes are listed under one and the same weapon category.
SameWeaponCategory(code1, code2) ==
    \E category \in DOMAIN WEAPON_CATEGORIES :
        /\ code1 \in WEAPON_CATEGORIES[category]
        /\ code2 \in WEAPON_CATEGORIES[category]

\* C13: the weapon factor is 100 exactly when the weapon codes are equal, 70
\* exactly when they differ and both lie in the same category, and 0 in
\* every other case, codes without a category included.
C13_WeaponFactor ==
    (ScoreCallDone /\ ret.raised = "none") =>
        LET code1 == call.case1.weapon_code
            code2 == call.case2.weapon_code
        IN  ret.scores.weapon =
                IF code1 = code2 THEN 1000
                ELSE IF SameWeaponCategory(code1, code2) THEN 700
                ELSE 0

(***************************************************************************)
(* calculate_geographic_score called on its own: county identifiers absent *)
(* or present, each coordinate absent or present.                          *)
(***************************************************************************)
GeoCounties == {None, Some(17031), Some(6037)}

\* A latitude/longitude pair of one point, either coordinate possibly None.
GeoLocations ==
    {<<lat, lon>> : lat \in {None, Some(Chicago.lat)},
                    lon \in {None, Some(Chicago.lon)}}
    \cup {<<lat, lon>> : lat \in {None, Some(Near.lat)},
                         lon \in {None, Some(Near.lon)}}
    \cup {<<lat, lon>> : lat \in {None, Some(LA.lat)},
                         lon \in {None, Some(LA.lon)}}

InitGeo ==
    /\ \E county1 \in GeoCounties, county2 \in GeoCounties,
          loc1 \in GeoLocations, loc2 \in GeoLocations :
          call = [fn |-> "calculate_geographic_score",
                  case1_county_fips |-> county1,
                  case1_lat |-> loc1[1], case1_lon |-> loc1[2],
                  case2_county_fips |-> county2,
                  case2_lat |-> loc2[1], case2_lon |-> loc2[2]]
    /\ ret = Pending
    /\ now = 0
    /\ req = [r \in Requests |-> IdleRequest]
    /\ cluster_results = {}
    /\ cluster_membership = {}
    /\ writer = None

CalculateGeographicScore ==
    /\ call.fn = "calculate_geographic_score"
    /\ ret = Pending
    /\ ret' = [raised |-> "none",
               score |-> calculate_geographic_score(
                   call.case1_county_fips, call.case1_lat, call.case1_lon,
                   call.case2_county_fips, call.case2_lat, call.case2_lon,
                   MaxDistanceMiles)]
    /\ UNCHANGED <<call, now, req, cluster_results, cluster_membership, writer>>

NextGeo == CalculateGeographicScore

SpecGeo == InitGeo /\ [][NextGeo]_vars

GeoCallDone == call.fn = "calculate_geographic_score" /\ ret # Pending

CountiesEqualAndPresent ==
    /\ call.case1_county_fips # None
    /\ call.case2_county_fips # None
    /\ call.case1_county_fips = call.case2_county_fips

CoordinateMissing ==
    None \in {call.case1_lat, call.case1_lon, call.case2_lat, call.case2_lon}

\* C14: calculate_geographic_score returns 100 whenever both county
\* identifiers are present and equal, whatever the coordinates, and 0
\* whenever the identifiers differ or one is absent and at least one of the
\* four coordinates is missing.
C14_CountyShortCircuit ==
    GeoCallDone =>
        /\ CountiesEqualAndPresent => ret.score = 1000
        /\ (~CountiesEqualAndPresent /\ CoordinateMissing) => ret.score = 0

\* Equal counties with a missing coordinate scored 100.
C14_Witness ==
    /\ GeoCallDone
    /\ CountiesEqualAndPresent
    /\ CoordinateMissing
    /\ ret.score = 1000

\* The score of the call with the two cases exchanged.
ExchangedScore ==
    calculate_geographic_score(
        call.case2_county_fips, call.case2_lat, call.case2_lon,
        call.case1_county_fips, call.case1_lat, call.case1_lon,
        MaxDistanceMiles)

\* C20: calculate_geographic_score gives the same score when the two cases
\* are exchanged, for all inputs, missing counties and missing coordinates
\* included.
C20_GeographicSymmetric ==
    GeoCallDone => ret.score = ExchangedScore

\* Two different located points within range and without a shared county:
\* the score comes from the distance, in whichever order.
C20_Witness ==
    /\ GeoCallDone
    /\ ~CountiesEqualAndPresent
    /\ ~CoordinateMissing
    /\ <<call.case1_lat, call.case1_lon>> # <<call.case2_lat, call.case2_lon>>
    /\ ret.score > 0
    /\ ret.score < 1000

(***************************************************************************)
(* Unknown victim age: calculate_similarity on pairs of known and unknown  *)
(* ages, next to detect_clusters on cases some of which have age 999.      *)
(***************************************************************************)
P10 == Case("IL-10", "ILLINOIS", Some(17031), NoLocation, 2001, 0,
            21, "Other cutting", 2, "Female", 999, "Black")

AgePool == {P3, P4, P10}

AgeCases(id) ==
    {ScoreCase(id, Some(17031), At(Chicago), 12, 1, age, 1990, "White") :
        age \in {25, 30, UnknownAge}}

AgeConfigs ==
    [min_cluster_size : {2},
     max_solve_rate : {1000},
     similarity_threshold : {700, 900},
     weights : {DefaultWeights}]

InitAge ==
    /\ \E case1 \in AgeCases("A"), case2 \in AgeCases("B") :
          call = [fn |-> "calculate_similarity", case1 |-> case1,
                  case2 |-> case2, weights |-> DefaultWeights]
    /\ ret = Pending
    /\ now = 0
    /\ cluster_results = {}
    /\ cluster_membership = {}
    /\ writer = None
    /\ \E cases \in CaseLists(AgePool, MaxCases), config \in AgeConfigs :
          req = [r \in Requests |->
                    IF r = "r1" THEN DirectCall(cases, config)
                    ELSE IdleRequest]

NextAge ==
    \/ CalculateSimilarity
    \/ \E r \in Requests : DetectBegin(r) \/ BuildCluster(r) \/ DetectEnd(r)

SpecAge == InitAge /\ [][NextAge]_vars

\* The known victim ages of a cluster's members.
KnownAges(cluster) ==
    SelectSeq([i \in 1..Len(cluster.cases) |-> cluster.cases[i].vic_age],
              LAMBDA age : age # 999)

\* C15: whenever a victim age is 999, both included, the victim_age factor
\* is 0.0 (the sentinel does not enter the age difference), and the mean
\* victim age of a cluster is the mean of its members' ages other than 999
\* (0.0 when there is none).
C15_UnknownAgeExcluded ==
    /\ (/\ ScoreCallDone
        /\ 999 \in {call.case1.vic_age, call.case2.vic_age})
          => ret.scores.victim_age = 0
    /\ \A r \in Requests : \A k \in 1..Len(req[r].all_clusters) :
          LET cluster == req[r].all_clusters[k]
              known == KnownAges(cluster)
          IN  cluster.avg_victim_age =
                  IF known = <<>> THEN 0
                  ELSE RoundDiv(SumSeq(known) * 10, Len(known))

\* Two unknown ages were scored, and a cluster of one known age (60) and
\* two unknown ones has mean victim age 60.0.
C15_Witness ==
    /\ ScoreCallDone
    /\ call.case1.vic_age = 999
    /\ call.case2.vic_age = 999
    /\ ret.scores.victim_age = 0
    /\ \E k \in 1..Len(req["r1"].all_clusters) :
          /\ Len(req["r1"].all_clusters[k].cases) = 3
          /\ req["r1"].all_clusters[k].avg_victim_age = 600

\* C16: every cluster detect_clusters returns has total_cases = solved_cases
\* + unsolved_cases = the number of its member cases, and solve_rate is
\* 100 * solved_cases / total_cases rounded to one decimal (within half a
\* tenth of the quotient).
C16_ClusterCounts ==
    \A r \in Requests : \A k \in 1..Len(req[r].clusters) :
        LET cluster == req[r].clusters[k]
            solved == Cardinality({i \in 1..Len(cluster.cases) :
                                        cluster.cases[i].solved = 1})
        IN  /\ cluster.total_cases = Len(cluster.cases)
            /\ cluster.total_cases = cluster.solved_cases + cluster.unsolved_cases
            /\ cluster.solved_cases = solved
            /\ 2 * Abs(cluster.solve_rate * cluster.total_cases - solved * 1000)
                  <= cluster.total_cases

\* A returned cluster of three cases, one solved: solve rate 33.3.
C16_Witness ==
    \E r \in Requests : \E k \in 1..Len(req[r].clusters) :
        /\ req[r].pc = "persist"
        /\ req[r].clusters[k].total_cases = 3
        /\ req[r].clusters[k].solved_cases = 1
        /\ req[r].clusters[k].unsolved_cases = 2
        /\ req[r].clusters[k].solve_rate = 333

(***************************************************************************)
(* analysis/similarity.py: the search scorer.  Factor scores are in units  *)
(* of 0.0001 point, weights in hundredths, the overall score in units of   *)
(* 0.000001 point; a score rounded to one decimal is in tenths.            *)
(***************************************************************************)
MaxRows == 4         \* most rows of table cases in a search

Near2 == [lat |-> 419500, lon |-> -879008]

\* similarity.haversine_distance on the model's four points, in thousandths
\* of a mile: one entry per ordered pair, each the value the source returns
\* for the arguments in that order (R = 3959, not rounded by the source).
similarity_haversine_distance(lat1, lon1, lat2, lon2) ==
    LET a == [lat |-> lat1, lon |-> lon1]
        b == [lat |-> lat2, lon |-> lon2]
    IN  CASE a = b -> 0
          [] a = Chicago /\ b = Near    -> 14755
          [] a = Chicago /\ b = Near2   -> 14794
          [] a = Chicago /\ b = LA      -> 1742415
          [] a = Near    /\ b = Chicago -> 14755
          [] a = Near    /\ b = Near2   -> 41
          [] a = Near    /\ b = LA      -> 1729368
          [] a = Near2   /\ b = Chicago -> 14794
          [] a = Near2   /\ b = Near    -> 41
          [] a = Near2   /\ b = LA      -> 1729327
          [] a = LA      /\ b = Chicago -> 1742415
          [] a = LA      /\ b = Near    -> 1729368
          [] a = LA      /\ b = Near2   -> 1729327

\* The categories dict of same_weapon_category.
SearchWeaponCategories ==
    {{11, 12, 13, 14, 15}, {20}, {30}, {40}, {80, 85}, {60}, {70}, {65},
     {75}, {90}, {50, 55}}

same_weapon_category(code1, code2) ==
    IF code1 = None \/ code2 = None THEN FALSE
    ELSE \E category_codes \in SearchWeaponCategories :
            Val(code1) \in category_codes /\ Val(code2) \in category_codes

\* similarity.SimilarityWeights, in hundredths.
SearchWeights ==
    [weapon |-> 30, geographic |-> 25, victim_age |-> 20, temporal |-> 15,
     victim_race |-> 5, circumstance |-> 3, relationship |-> 2]

SearchZeroWeights ==
    [weapon |-> 0, geographic |-> 0, victim_age |-> 0, temporal |-> 0,
     victim_race |-> 0, circumstance |-> 0, relationship |-> 0]

similarity_total(w) ==
    w.weapon + w.geographic + w.victim_age + w.temporal + w.victim_race
        + w.circumstance + w.relationship

SimilarityConfig(weights) ==
    [weights |-> weights, radius_miles |-> 100, age_range |-> 10,
     year_range |-> 5]

\* Python truth of an optional number (None and 0 are false) and of an
\* optional string (None and "" are false).
TruthyNumber(o) == o # None /\ Val(o) # 0

TruthyString(o) == o # None /\ Val(o) # ""

\* The factor_scores dict of similarity.calculate_similarity.
SearchFactorScores(reference_case, candidate_case, config) ==
    [weapon |->
        IF reference_case.weapon = candidate_case.weapon THEN 1000000
        ELSE IF same_weapon_category(reference_case.weapon_code,
                                     candidate_case.weapon_code) THEN 700000
        ELSE 0,
     geographic |->
        IF /\ TruthyNumber(reference_case.latitude)
           /\ TruthyNumber(reference_case.longitude)
           /\ TruthyNumber(candidate_case.latitude)
           /\ TruthyNumber(candidate_case.longitude)
        THEN LET distance == similarity_haversine_distance(
                                 Val(reference_case.latitude),
                                 Val(reference_case.longitude),
                                 Val(candidate_case.latitude),
                                 Val(candidate_case.longitude))
             IN  IF distance <= config.radius_miles * 1000
                 THEN Max(0, 1000000
                             - RoundDiv(distance * 500, config.radius_miles))
                 ELSE 0
        ELSE IF reference_case.county_fips_code
                    = candidate_case.county_fips_code THEN 1000000
        ELSE IF reference_case.state = candidate_case.state THEN 300000
        ELSE 0,
     victim_age |->
        IF reference_case.vic_age = 999 \/ candidate_case.vic_age = 999
        THEN 500000
        ELSE LET age_diff == Abs(reference_case.vic_age
                                    - candidate_case.vic_age)
             IN  IF age_diff <= config.age_range THEN 1000000
                 ELSE Max(0, 1000000
                             - (age_diff - config.age_range) * 50000),
     temporal |->
        LET year_diff == Abs(reference_case.year - candidate_case.year)
        IN  IF year_diff <= config.year_range THEN 1000000
            ELSE Max(0, 1000000 - (year_diff - config.year_range) * 100000),
     victim_race |->
        IF reference_case.vic_race = candidate_case.vic_race
        THEN 1000000 ELSE 0,
     circumstance |->
        IF TruthyString(reference_case.circumstance)
              /\ TruthyString(candidate_case.circumstance)
        THEN IF reference_case.circumstance = candidate_case.circumstance
             THEN 1000000 ELSE 0
        ELSE 500000,
     relationship |->
        IF TruthyString(reference_case.relationship)
              /\ TruthyString(candidate_case.relationship)
        THEN IF reference_case.relationship = candidate_case.relationship
             THEN 1000000 ELSE 0
        ELSE 500000]

\* similarity.calculate_similarity: the weighted sum of the factor scores,
\* not divided by the weights' total.
similarity_calculate_similarity(reference_case, candidate_case, config) ==
    LET factor_scores == SearchFactorScores(reference_case, candidate_case,
                                            config)
        weights == config.weights
    IN  [raised |-> "none",
         overall_score |->
              factor_scores.weapon * weights.weapon
            + factor_scores.geographic * weights.geographic
            + factor_scores.victim_age * weights.victim_age
            + factor_scores.temporal * weights.temporal
            + factor_scores.victim_race * weights.victim_race
            + factor_scores.circumstance * weights.circumstance
            + factor_scores.relationship * weights.relationship,
         factor_scores |-> factor_scores]

\* A row of table cases with the columns the search reads.
SearchCase(id, state, county_fips_code, loc, year, weapon, weapon_code, vic_sex, vic_age, vic_race, circumstance, relationship) ==
    [id |-> id, state |-> state, county_fips_code |-> county_fips_code,
     latitude |-> loc[1], longitude |-> loc[2], year |-> year,
     weapon |-> weapon, weapon_code |-> weapon_code, vic_sex |-> vic_sex,
     vic_age |-> vic_age, vic_race |-> vic_race,
     circumstance |-> circumstance, relationship |-> relationship]

(***************************************************************************)
(* similarity.calculate_similarity called on its own.                      *)
(***************************************************************************)
SearchReferences ==
    {SearchCase("R", "ILLINOIS", county, loc, 1990, Some("Handgun"),
                Some(12), "Male", age, "White", Some("Argument"),
                Some("Stranger")) :
        county \in {None, Some(17031)},
        loc \in {NoLocation, At(Chicago)},
        age \in {25, 999}}

SearchCandidates ==
    {SearchCase("X", state, county, loc, 1990, w[1], w[2], "Male", age,
                "White", circumstance, Some("Stranger")) :
        state \in {"ILLINOIS", "INDIANA"},
        county \in {None, Some(17031), Some(6037)},
        loc \in {NoLocation, <<Some(0), Some(Near.lon)>>, At(Chicago),
                 At(Near), At(LA)},
        w \in {<<Some("Handgun"), Some(12)>>, <<Some("Rifle"), Some(13)>>,
               <<Some("Knife"), Some(20)>>, <<None, None>>},
        age \in {25, 45, 999},
        circumstance \in {None, Some("Argument"), Some("Robbery")}}

InitSearchScore ==
    /\ \E reference_case \in SearchReferences,
          candidate_case \in SearchCandidates,
          weights \in {SearchWeights, SearchZeroWeights} :
          call = [fn |-> "similarity.calculate_similarity",
                  reference_case |-> reference_case,
                  candidate_case |-> candidate_case,
                  config |-> SimilarityConfig(weights)]
    /\ ret = Pending
    /\ now = 0
    /\ req = [r \in Requests |-> IdleRequest]
    /\ cluster_results = {}
    /\ cluster_membership = {}
    /\ writer = None

SimilarityCalculateSimilarity ==
    /\ call.fn = "similarity.calculate_similarity"
    /\ ret = Pending
    /\ ret' = similarity_calculate_similarity(call.reference_case,
                                              call.candidate_case, call.config)
    /\ UNCHANGED <<call, now, req, cluster_results, cluster_membership, writer>>

NextSearchScore == SimilarityCalculateSimilarity

SpecSearchScore == InitSearchScore /\ [][NextSearchScore]_vars

SearchScoreDone ==
    call.fn = "similarity.calculate_similarity" /\ ret # Pending

\* C18: the search scorer called with weights whose total() is 0 ends in a
\* configuration error and returns no numeric score.
C18_SearchZeroTotalRaises ==
    (SearchScoreDone /\ similarity_total(call.config.weights) = 0) =>
        ret.raised # "none"

\* C19: in the search scorer two cases with equal, present county
\* identifiers score 100 on geographic, whatever their coordinates.
C19_SearchSameCounty ==
    (/\ SearchScoreDone
     /\ call.reference_case.county_fips_code # None
     /\ call.reference_case.county_fips_code
            = call.candidate_case.county_fips_code)
        => ret.factor_scores.geographic = 1000000

(***************************************************************************)
(* analysis/similarity.py: find_similar_cases                              *)
(***************************************************************************)
\* round(x, 1) of an overall score, in tenths.
RoundScore(score) == RoundDiv(score, 100000)

\* SimilarCase, for a candidate that passed the threshold.
SimilarCase(candidate, outcome) ==
    [case_id |-> candidate.id,
     similarity_score |-> RoundScore(outcome.overall_score),
     matching_factors |->
        [k \in DOMAIN outcome.factor_scores |->
            RoundDiv(outcome.factor_scores[k], 1000)],
     case_data |-> candidate]

\* similar_cases.sort(key=lambda x: x.similarity_score, reverse=True): a
\* stable sort, equal keys keep their order.
RECURSIVE InsertByScore(_, _)
InsertByScore(sorted, c) ==
    IF sorted = <<>> THEN <<c>>
    ELSE IF Head(sorted).similarity_score >= c.similarity_score
    THEN <<Head(sorted)>> \o InsertByScore(Tail(sorted), c)
    ELSE <<c>> \o sorted

RECURSIVE SortByScoreFrom(_, _)
SortByScoreFrom(similar_cases, acc) ==
    IF similar_cases = <<>> THEN acc
    ELSE SortByScoreFrom(Tail(similar_cases),
                         InsertByScore(acc, Head(similar_cases)))

\* The rows of the candidate query: same victim sex, not the reference.
CandidateRows(rows, ref_case) ==
    SelectSeq(rows, LAMBDA row : /\ row.vic_sex = ref_case.vic_sex
                                 /\ row.id # ref_case.id)

\* score >= min_score, min_score in tenths.
PassesMinScore(score, min_score) == score >= min_score * 100000

\* find_similar_cases over the rows of table cases: ValueError when the
\* reference is not found, else the candidates at or above min_score, sorted
\* by rounded score and cut to limit.
find_similar_cases(rows, case_id, limit, min_score) ==
    IF ~\E i \in 1..Len(rows) : rows[i].id = case_id
    THEN [raised |-> "ValueError"]
    ELSE LET ref_case == rows[CHOOSE i \in 1..Len(rows) : rows[i].id = case_id]
             config == SimilarityConfig(SearchWeights)
             candidates == CandidateRows(rows, ref_case)
             kept == SelectSeq(candidates, LAMBDA candidate :
                        PassesMinScore(
                            similarity_calculate_similarity(
                                ref_case, candidate, config).overall_score,
                            min_score))
             similar_cases ==
                [k \in 1..Len(kept) |->
                    SimilarCase(kept[k],
                        similarity_calculate_similarity(ref_case, kept[k],
                                                        config))]
             sorted == SortByScoreFrom(similar_cases, <<>>)
         IN  [raised |-> "none",
              result |-> SubSeq(sorted, 1,
                                IF limit < Len(sorted) THEN limit
                                ELSE Len(sorted))]

SR == SearchCase("R", "ILLINOIS", Some(17031), At(Chicago), 1990,
                 Some("Handgun"), Some(12), "Male", 25, "White",
                 Some("Argument"), Some("Stranger"))
SA == SearchCase("A", "ILLINOIS", Some(17031), At(Near2), 1990,
                 Some("Handgun"), Some(12), "Male", 25, "White",
                 Some("Argument"), Some("Stranger"))
SB == SearchCase("B", "ILLINOIS", Some(17031), At(Near), 1990,
                 Some("Handgun"), Some(12), "Male", 25, "White",
                 Some("Argument"), Some("Stranger"))
SC == SearchCase("C", "ILLINOIS", Some(6037), At(LA), 1990,
                 Some("Rifle"), Some(13), "Male", 25, "White",
                 Some("Argument"), Some("Stranger"))
SD == SearchCase("D", "ILLINOIS", Some(17031), At(Chicago), 1990,
                 Some("Handgun"), Some(12), "Female", 25, "White",
                 Some("Argument"), Some("Stranger"))
SE == SearchCase("E", "INDIANA", Some(6037), At(LA), 1970,
                 Some("Knife"), Some(20), "Male", 70, "Black",
                 Some("Robbery"), Some("Wife"))

SearchPool == {SR, SA, SB, SC, SD, SE}

InitSearch ==
    /\ \E rows \in CaseLists(SearchPool, MaxRows),
          limit \in {1, 2, 50}, min_score \in {0, 300, 900} :
          call = [fn |-> "find_similar_cases", rows |-> rows,
                  case_id |-> "R", limit |-> limit, min_score |-> min_score]
    /\ ret = Pending
    /\ now = 0
    /\ req = [r \in Requests |-> IdleRequest]
    /\ cluster_results = {}
    /\ cluster_membership = {}
    /\ writer = None

FindSimilarCases ==
    /\ call.fn = "find_similar_cases"
    /\ ret = Pending
    /\ ret' = find_similar_cases(call.rows, call.case_id, call.limit,
                                 call.min_score)
    /\ UNCHANGED <<call, now, req, cluster_results, cluster_membership, writer>>

NextSearch == FindSimilarCases

SpecSearch == InitSearch /\ [][NextSearch]_vars

SearchDone == call.fn = "find_similar_cases" /\ ret # Pending

\* The score calculate_similarity gives a row against the reference.
ScoreOf(row) ==
    LET ref_case == call.rows[CHOOSE i \in 1..Len(call.rows) :
                                  call.rows[i].id = call.case_id]
    IN  similarity_calculate_similarity(
            ref_case, row, SimilarityConfig(SearchWeights)).overall_score

Tripled(weights) == [f \in DOMAIN weights |-> weights[f] * 3]

ScaleReference ==
    ScoreCase("A", None, At(Chicago), 12, 1, 25, 1990, "White")

ScaleCases ==
    {ScoreCase("B", None, At(point), w, s, a, y, c) :
        point \in {Chicago, Near, Mid, LA}, w \in {12, 13, 20},
        s \in {1, 2}, a \in {25, 26, 30}, y \in {1990, 1991},
        c \in {"White", "Black"}}

BaseWeights == {DefaultWeights, UnevenWeights}

InitScale ==
    /\ \E case2 \in ScaleCases,
          weights \in BaseWeights
                        \cup {Tripled(w) : w \in BaseWeights} :
          call = [fn |-> "calculate_similarity", case1 |-> ScaleReference,
                  case2 |-> case2, weights |-> weights]
    /\ ret = Pending
    /\ now = 0
    /\ req = [r \in Requests |-> IdleRequest]
    /\ cluster_results = {}
    /\ cluster_membership = {}
    /\ writer = None

SpecScale == InitScale /\ [][NextScore]_vars

\* C21: the total is the weighted sum divided by weights.total(): it lies in
\* 0..100, and the same cases scored under the weights multiplied by a
\* positive constant get the same total.
C21_ScaleInvariant ==
    (/\ ScoreCallDone
     /\ ret.raised = "none"
     /\ call.weights \in BaseWeights) =>
        /\ ret.total >= 0
        /\ ret.total <= 1000
        /\ calculate_similarity(call.case1, call.case2,
                                Tripled(call.weights)).total
              = ret.total

(***************************************************************************)
(* The order of clusters that tie on unsolved_cases.  P11 is an unsolved   *)
(* twin of P3 and scores 82.5 with P4, so {P1, P2} and {P4, P11} are two   *)
(* components of one county with two unsolved cases each.                  *)
(***************************************************************************)
P11 == Case("IL-11", "ILLINOIS", Some(17031), At(Near), 2001, 0,
            20, "Knife", 2, "Female", 60, "Black")

OrderPool == {P1, P2, P3, P4, P11, P6, P7}

OrderConfigs ==
    [min_cluster_size : {2},
     max_solve_rate : {1000},
     similarity_threshold : {0, 700},
     weights : {DefaultWeights}]

InitOrder ==
    /\ call = NoCall
    /\ ret = Pending
    /\ now = 0
    /\ cluster_results = {}
    /\ cluster_membership = {}
    /\ writer = None
    /\ \E cases \in CaseLists(OrderPool, MaxCases), config \in OrderConfigs :
          req = [r \in Requests |->
                    IF r = "r1" THEN DirectCall(cases, config)
                    ELSE IdleRequest]

SpecOrder == InitOrder /\ [][NextDetect]_vars

\* The position in the input list of the first case of a geographic group.
GroupStart(cases, county_key) ==
    CHOOSE i \in 1..Len(cases) :
        /\ KeyOf(cases[i]) = county_key
        /\ \A j \in 1..(i - 1) : KeyOf(cases[j]) # county_key

\* The position in the input list of the first member of a cluster.
ClusterStart(cases, cluster) ==
    CHOOSE i \in 1..Len(cases) :
        /\ cases[i] \in Members(cluster)
        /\ \A j \in 1..(i - 1) : cases[j] \notin Members(cluster)

\* Discovery order: groups in order of first occurrence in the input list,
\* components of one group in the order the loop over adjacency meets them,
\* which is the order of their first members.
DiscoveredBefore(cases, c1, c2) ==
    LET g1 == GroupStart(cases, c1.location_description)
        g2 == GroupStart(cases, c2.location_description)
    IN  \/ g1 < g2
        \/ g1 = g2 /\ ClusterStart(cases, c1) < ClusterStart(cases, c2)

\* C22: in the list detect_clusters returns, two clusters with the same
\* unsolved_cases stand in their discovery order.
C22_TiesInDiscoveryOrder ==
    \A r \in Requests :
        req[r].pc = "persist" =>
            \A k1, k2 \in 1..Len(req[r].clusters) :
                (/\ k1 < k2
                 /\ req[r].clusters[k1].unsolved_cases
                        = req[r].clusters[k2].unsolved_cases)
                    => DiscoveredBefore(req[r].cases, req[r].clusters[k1],
                                        req[r].clusters[k2])

\* A call that returned two clusters of one county with equal
\* unsolved_cases.
C22_Witness ==
    \E r \in Requests :
        /\ req[r].pc = "persist"
        /\ Len(req[r].clusters) = 2
        /\ req[r].clusters[1].unsolved_cases = req[r].clusters[2].unsolved_cases
        /\ req[r].clusters[1].location_description
               = req[r].clusters[2].location_description
        /\ req[r].cases[1] \in Members(req[r].clusters[1])

\* A call that returned two clusters of different groups with equal
\* unsolved_cases.
C22_WitnessGroups ==
    \E r \in Requests :
        /\ req[r].pc = "persist"
        /\ Len(req[r].clusters) = 2
        /\ req[r].clusters[1].unsolved_cases = req[r].clusters[2].unsolved_cases
        /\ req[r].clusters[1].location_description
               # req[r].clusters[2].location_description

(***************************************************************************)
(* routes/clusters.py: POST /api/clusters/preflight, next to a request to  *)
(* /analyze with the same case count.                                      *)
(***************************************************************************)
\* suggestFilters of the specification (4.4): a list, whose text the routes
\* pass on unread.
get_filter_suggestions == <<"narrow the filter">>

\* Mutant: every tier that may proceed gets a time estimate.
cluster_preflight_AlwaysEstimate(case_count) ==
    LET tier == classify_dataset_tier(case_count)
    IN  [case_count |-> case_count, tier |-> tier,
         estimated_time_seconds |->
            IF tier = 3 THEN None
            ELSE Some(estimate_clustering_time(case_count)),
         can_proceed |-> tier # 3,
         filter_suggestions |->
            IF tier = 3 THEN Some(get_filter_suggestions) ELSE None]

\* The ClusterPreflightResponse of the three branches.
cluster_preflight(case_count) ==
    LET tier == classify_dataset_tier(case_count)
    IN  IF tier = 1
        THEN [case_count |-> case_count, tier |-> tier,
              estimated_time_seconds |-> None, can_proceed |-> TRUE,
              filter_suggestions |-> None]
        ELSE IF tier = 2
        THEN [case_count |-> case_count, tier |-> tier,
              estimated_time_seconds |->
                  Some(estimate_clustering_time(case_count)),
              can_proceed |-> TRUE, filter_suggestions |-> None]
        ELSE [case_count |-> case_count, tier |-> tier,
              estimated_time_seconds |-> None, can_proceed |-> FALSE,
              filter_suggestions |-> Some(get_filter_suggestions)]

InitPreflight ==
    /\ ret = Pending
    /\ now = 0
    /\ cluster_results = {}
    /\ cluster_membership = {}
    /\ writer = None
    /\ \E case_count \in 0..MaxCaseCount, force \in BOOLEAN :
          /\ call = [fn |-> "cluster_preflight", case_count |-> case_count]
          /\ req = [r \in Requests |->
                       IF r = "r1"
                       THEN ApiRequest(<<>>, IdleRequest.config, case_count,
                                       force)
                       ELSE IdleRequest]

ClusterPreflight ==
    /\ call.fn = "cluster_preflight"
    /\ ret = Pending
    /\ ret' = [raised |-> "none", response |-> cluster_preflight(call.case_count)]
    /\ UNCHANGED <<call, now, req, cluster_results, cluster_membership, writer>>

NextPreflight == ClusterPreflight \/ \E r \in Requests : AnalyzeClusters(r)

SpecPreflight == InitPreflight /\ [][NextPreflight]_vars

PreflightDone == call.fn = "cluster_preflight" /\ ret # Pending

\* /analyze has answered the request or handed it to run_cluster_analysis.
AnalyzeDone(r) == req[r].pc \in {"run", "done"}

Refused(r, error) ==
    /\ req[r].pc = "done"
    /\ req[r].response.status = 400
    /\ req[r].response.error = error

\* C23: the preflight response has can_proceed = false exactly in Tier 3, an
\* estimated_time_seconds exactly in Tier 2 and filter_suggestions only in
\* Tier 3; /analyze on the same count refuses with dataset_too_large exactly
\* when can_proceed is false, asks for confirmation exactly when the tier is
\* 2 and force is not set, and runs the analysis otherwise.
C23_PreflightAgrees ==
    PreflightDone =>
        LET p == ret.response
        IN  /\ p.can_proceed = FALSE <=> p.tier = 3
            /\ p.estimated_time_seconds # None <=> p.tier = 2
            /\ p.filter_suggestions # None => p.tier = 3
            /\ \A r \in Requests :
                  (AnalyzeDone(r) /\ req[r].case_count = p.case_count) =>
                      /\ Refused(r, "dataset_too_large") <=> ~p.can_proceed
                      /\ Refused(r, "confirmation_required")
                            <=> (p.tier = 2 /\ ~req[r].force)
                      /\ req[r].pc = "run"
                            <=> (p.can_proceed /\ (p.tier = 1 \/ req[r].force))

\* Preflight reported Tier 2 with an estimate and /analyze, not forced, asked
\* for confirmation of the same count.
C23_Witness ==
    /\ PreflightDone
    /\ ret.response.tier = 2
    /\ ret.response.estimated_time_seconds # None
    /\ \E r \in Requests : Refused(r, "confirmation_required")

\* The scenario of the specification: same county, weapon code, victim sex
\* and race, ages 25 and 30, years 1990 and 1991.
C24_Scenario ==
    /\ call.weights = DefaultWeights
    /\ call.case1.county_fips_code # None
    /\ call.case1.county_fips_code = call.case2.county_fips_code
    /\ call.case1.weapon_code = call.case2.weapon_code
    /\ call.case1.vic_sex_code = call.case2.vic_sex_code
    /\ {call.case1.vic_age, call.case2.vic_age} = {25, 30}
    /\ {call.case1.year, call.case2.year} = {1990, 1991}
    /\ call.case1.vic_race = call.case2.vic_race

\* C24: with the default weights 35/25/20/10/7/3, two cases of the scenario
\* score geographic 100, weapon 100, victim_sex 100, victim_age 75.0,
\* temporal 90.0, victim_race 100 and total 96.8.
C24_WorkedExample ==
    (ScoreCallDone /\ C24_Scenario) =>
        /\ call.weights = [geographic |-> 35, weapon |-> 25, victim_sex |-> 20,
                           victim_age |-> 10, temporal |-> 7, victim_race |-> 3]
        /\ ret.raised = "none"
        /\ ret.scores = [geographic |-> 1000, weapon |-> 1000,
                         victim_sex |-> 1000, victim_age |-> 750,
                         temporal |-> 900, victim_race |-> 1000]
        /\ ret.total = 968

\* A call of the scenario on two cases at different coordinates: the county
\* settles the geographic factor.
C24_Witness ==
    /\ ScoreCallDone
    /\ C24_Scenario
    /\ call.case1.latitude # None
    /\ call.case2.latitude # None
    /\ call.case1.latitude # call.case2.latitude
    /\ ret.total = 968

(***************************************************************************)
(* The similarity graph.  In county 17031 the four cases score P1~P2 96.8, *)
(* P1~P12 80.0, P2~P12 76.8, P12~P13 75.0, P1~P13 55.0 and P2~P13 51.8:    *)
(* at threshold 70.0 a triangle with a tail, at 80.0 the chain P2-P1-P12   *)
(* (80.0 is on the threshold) and P13 on its own.  P5 is alone in its      *)
(* group.                                                                  *)
(***************************************************************************)
P12 == Case("IL-12", "ILLINOIS", Some(17031), At(Chicago), 1990, 1,
            12, "Handgun", 2, "Female", 25, "White")
P13 == Case("IL-13", "ILLINOIS", Some(17031), At(Chicago), 1990, 0,
            20, "Knife", 2, "Female", 25, "White")

GraphPool == {P1, P2, P12, P13, P5}

GraphConfigs ==
    [min_cluster_size : {1, 2, 3},
     max_solve_rate : {330, 1000},
     similarity_threshold : {700, 800},
     weights : {DefaultWeights}]

InitGraph ==
    /\ call = NoCall
    /\ ret = Pending
    /\ now = 0
    /\ cluster_results = {}
    /\ cluster_membership = {}
    /\ writer = None
    /\ \E cases \in CaseLists(GraphPool, MaxCases), config \in GraphConfigs :
          req = [r \in Requests |->
                    IF r = "r1" THEN DirectCall(cases, config)
                    ELSE IdleRequest]

SpecGraph == InitGraph /\ [][NextDetect]_vars

CaseSet(r) == {req[r].cases[i] : i \in 1..Len(req[r].cases)}

\* An edge of the similarity graph of request r: two cases of one group whose
\* total, scored in the order of the input list, reaches the threshold.
GraphEdge(r, a, b) ==
    \E i, j \in 1..Len(req[r].cases) :
        /\ i < j
        /\ {req[r].cases[i], req[r].cases[j]} = {a, b}
        /\ KeyOf(a) = KeyOf(b)
        /\ calculate_similarity(req[r].cases[i], req[r].cases[j],
                                req[r].config.weights).total
               >= req[r].config.similarity_threshold

\* The cases of nodes joined to a case of S by a path of edges inside nodes.
RECURSIVE ReachFrom(_, _, _)
ReachFrom(r, nodes, S) ==
    LET next == S \cup {b \in nodes : \E a \in S : GraphEdge(r, a, b)}
    IN  IF next = S THEN S ELSE ReachFrom(r, nodes, next)

\* C25: the member set of every returned cluster is a connected component of
\* its group's graph: every member is joined to every other by a path inside
\* the cluster, no member has an edge to a case outside it, and no case is
\* in two returned clusters.
C25_ClustersAreComponents ==
    \A r \in Requests :
        req[r].pc = "persist" =>
            \A k \in 1..Len(req[r].clusters) :
                LET members == Members(req[r].clusters[k])
                IN  /\ members \subseteq CaseSet(r)
                    /\ \A a \in members : ReachFrom(r, members, {a}) = members
                    /\ \A a \in members : \A b \in CaseSet(r) \ members :
                          ~GraphEdge(r, a, b)
                    /\ \A k2 \in 1..Len(req[r].clusters) :
                          k2 # k => Members(req[r].clusters[k2]) \cap members = {}

\* A returned cluster of three cases two of which are joined only through
\* the third, the pair on the threshold being one of its edges.
C25_Witness ==
    \E r \in Requests :
        /\ req[r].pc = "persist"
        /\ req[r].config.similarity_threshold = 800
        /\ Len(req[r].clusters) = 1
        /\ Members(req[r].clusters[1]) = {P1, P2, P12}
        /\ ~GraphEdge(r, P2, P12)
        /\ P13 \in CaseSet(r)

\* The connected component of case a in the graph of its group; a case with
\* no edge is a component of size 1.
ComponentOf(r, a) ==
    ReachFrom(r, {b \in CaseSet(r) : KeyOf(b) = KeyOf(a)}, {a})

\* Solved members per hundred, in tenths.
SolveRateOf(S) ==
    RoundDiv(Cardinality({c \in S : c.solved = 1}) * 1000, Cardinality(S))

\* C26: every connected component of a group's graph, those of size 1
\* included, whose size is >= min_cluster_size and whose solve rate is <=
\* max_solve_rate is the member set of exactly one returned cluster.
C26_NoComponentLost ==
    \A r \in Requests :
        req[r].pc = "persist" =>
            \A a \in CaseSet(r) :
                LET S == ComponentOf(r, a)
                IN  (/\ Cardinality(S) >= req[r].config.min_cluster_size
                     /\ SolveRateOf(S) <= req[r].config.max_solve_rate)
                        => Cardinality({k \in 1..Len(req[r].clusters) :
                               Members(req[r].clusters[k]) = S}) = 1

\* The same for components of two cases or more.
C26_NoLargerComponentLost ==
    \A r \in Requests :
        req[r].pc = "persist" =>
            \A a \in CaseSet(r) :
                LET S == ComponentOf(r, a)
                IN  (/\ Cardinality(S) >= 2
                     /\ Cardinality(S) >= req[r].config.min_cluster_size
                     /\ SolveRateOf(S) <= req[r].config.max_solve_rate)
                        => Cardinality({k \in 1..Len(req[r].clusters) :
                               Members(req[r].clusters[k]) = S}) = 1

\* The edges among the members of a cluster, as pairs of positions in the
\* input list, and the similarity of an edge.
MemberEdges(r, members) ==
    {e \in (1..Len(req[r].cases)) \X (1..Len(req[r].cases)) :
        /\ e[1] < e[2]
        /\ req[r].cases[e[1]] \in members
        /\ req[r].cases[e[2]] \in members
        /\ GraphEdge(r, req[r].cases[e[1]], req[r].cases[e[2]])}

EdgeSimilarity(r, e) ==
    calculate_similarity(req[r].cases[e[1]], req[r].cases[e[2]],
                         req[r].config.weights).total

RECURSIVE SumOfEdges(_, _)
SumOfEdges(r, edges) ==
    IF edges = {} THEN 0
    ELSE LET e == CHOOSE x \in edges : TRUE
         IN  EdgeSimilarity(r, e) + SumOfEdges(r, edges \ {e})

\* C27: avg_similarity_score of a returned cluster is the mean, rounded to
\* one decimal, of the similarities of the graph edges among its members,
\* each edge taken once, in whatever order the cases were given and visited.
C27_AverageOverEdges ==
    \A r \in Requests :
        req[r].pc = "persist" =>
            \A k \in 1..Len(req[r].clusters) :
                LET edges == MemberEdges(r, Members(req[r].clusters[k]))
                IN  /\ edges # {}
                    /\ req[r].clusters[k].avg_similarity_score
                           = RoundDiv(SumOfEdges(r, edges), Cardinality(edges))

\* A returned cluster of four cases with four edges, three of them a cycle,
\* whose traversal started at the case that is not on the cycle.
C27_Witness ==
    \E r \in Requests :
        /\ req[r].pc = "persist"
        /\ Len(req[r].clusters) = 1
        /\ Members(req[r].clusters[1]) = {P1, P2, P12, P13}
        /\ Cardinality(MemberEdges(r, {P1, P2, P12, P13})) = 4
        /\ req[r].clusters[1].cases[1] = P13
        /\ req[r].clusters[1].avg_similarity_score = 822

(***************************************************************************)
(* The component extraction of one county group, statement by statement:   *)
(* the for-loop over adjacency and the while-loop over the stack.  call    *)
(* holds the locals of the loops; adds counts, per case, the executions of *)
(* visited.add / cluster_case_ids.append, and skipped the executions of    *)
(* continue in the while-loop.                                             *)
(***************************************************************************)
TraversalPool == {P1, P2, P12, P13}

TraversalThresholds == {0, 700, 800}

InitTraverse ==
    /\ ret = Pending
    /\ now = 0
    /\ req = [r \in Requests |-> IdleRequest]
    /\ cluster_results = {}
    /\ cluster_membership = {}
    /\ writer = None
    /\ \E cases \in CaseLists(TraversalPool, MaxCases), threshold \in TraversalThresholds :
          LET similar_pairs ==
                  SimilarPairs(cases, [IdleRequest.config EXCEPT
                                          !.similarity_threshold = threshold])
          IN  call = [fn |-> "extract_components",
                      pc |-> "for",
                      case_ids |-> {cases[i].id : i \in 1..Len(cases)},
                      similar_pairs |-> similar_pairs,
                      keys |-> AdjacencyKeysFrom(similar_pairs, <<>>),
                      visited |-> {},
                      stack |-> <<>>,
                      cluster_case_ids |-> <<>>,
                      cluster_similarities |-> <<>>,
                      components |-> <<>>,
                      adds |-> [id \in {cases[i].id : i \in 1..Len(cases)} |-> 0],
                      skipped |-> 0]

\* Mutant: a popped case is visited whether or not it is in visited.
WhileBody_NoSkip(t) ==
    LET current_id == t.stack[Len(t.stack)]
        popped == SubSeq(t.stack, 1, Len(t.stack) - 1)
        seen == t.visited \cup {current_id}
        pushed == SelectSeq(Adjacency(t.similar_pairs, current_id),
                            LAMBDA n : n[1] \notin seen)
    IN  [t EXCEPT
            !.visited = seen,
            !.cluster_case_ids = Append(@, current_id),
            !.adds[current_id] = @ + 1,
            !.stack = popped \o [k \in 1..Len(pushed) |-> pushed[k][1]],
            !.cluster_similarities =
                @ \o [k \in 1..Len(pushed) |-> pushed[k][2]]]

\* One pass of the while-loop on the locals t.
WhileBody(t) ==
    LET current_id == t.stack[Len(t.stack)]
        popped == SubSeq(t.stack, 1, Len(t.stack) - 1)
        seen == t.visited \cup {current_id}
        pushed == SelectSeq(Adjacency(t.similar_pairs, current_id),
                            LAMBDA n : n[1] \notin seen)
    IN  IF current_id \in t.visited
        THEN [t EXCEPT !.stack = popped, !.skipped = @ + 1]
        ELSE [t EXCEPT
                !.visited = seen,
                !.cluster_case_ids = Append(@, current_id),
                !.adds[current_id] = @ + 1,
                !.stack = popped \o [k \in 1..Len(pushed) |-> pushed[k][1]],
                !.cluster_similarities =
                    @ \o [k \in 1..Len(pushed) |-> pushed[k][2]]]

\* for case_id in adjacency: skip a visited key, else start a traversal.
ForStep ==
    /\ call.fn = "extract_components"
    /\ call.pc = "for"
    /\ call.keys # <<>>
    /\ call' = IF Head(call.keys) \in call.visited
               THEN [call EXCEPT !.keys = Tail(@)]
               ELSE [call EXCEPT !.keys = Tail(@),
                                 !.pc = "while",
                                 !.cluster_case_ids = <<>>,
                                 !.cluster_similarities = <<>>,
                                 !.stack = <<Head(call.keys)>>]
    /\ UNCHANGED <<ret, now, req, cluster_results, cluster_membership, writer>>

\* while stack: one pass.
WhileStep ==
    /\ call.fn = "extract_components"
    /\ call.pc = "while"
    /\ call.stack # <<>>
    /\ call' = WhileBody(call)
    /\ UNCHANGED <<ret, now, req, cluster_results, cluster_membership, writer>>

\* The stack is empty: the component is complete.
WhileEnd ==
    /\ call.fn = "extract_components"
    /\ call.pc = "while"
    /\ call.stack = <<>>
    /\ call' = [call EXCEPT
                  !.pc = "for",
                  !.components =
                      Append(@, [cluster_case_ids |-> call.cluster_case_ids,
                                 cluster_similarities |->
                                     call.cluster_similarities])]
    /\ UNCHANGED <<ret, now, req, cluster_results, cluster_membership, writer>>

\* The for-loop is exhausted.
ForEnd ==
    /\ call.fn = "extract_components"
    /\ call.pc = "for"
    /\ call.keys = <<>>
    /\ call' = [call EXCEPT !.pc = "returned"]
    /\ ret' = [raised |-> "none", components |-> call.components]
    /\ UNCHANGED <<now, req, cluster_results, cluster_membership, writer>>

NextTraverse == ForStep \/ WhileStep \/ WhileEnd \/ ForEnd

SpecTraverse == InitTraverse /\ [][NextTraverse]_vars

\* The loops run on one thread: a statement that can execute does.
FairTraverse ==
    InitTraverse /\ [][NextTraverse]_vars /\ WF_vars(NextTraverse)

TraverseReturned == call.fn = "extract_components" /\ call.pc = "returned"

\* The statement-level loops return what the operators DFS and
\* ComponentsFrom compute.
TraverseMatchesDFS ==
    TraverseReturned =>
        ret.components = ComponentsFrom(
                             AdjacencyKeysFrom(call.similar_pairs, <<>>), {},
                             call.similar_pairs, <<>>)

\* C28: the component extraction terminates: the call returns with the stack
\* empty, and no case has been added to visited and to a cluster more than
\* once.
C28_ExtractionTerminates ==
    <>(/\ TraverseReturned
       /\ call.stack = <<>>
       /\ \A id \in call.case_ids : call.adds[id] <= 1)

\* A returned extraction over a graph with a cycle, in which a case was on
\* the stack twice and was skipped the second time.
C28_Witness ==
    /\ TraverseReturned
    /\ call.skipped > 0
    /\ Len(ret.components) = 1
    /\ Len(ret.components[1].cluster_case_ids) = 4
    /\ Len(call.similar_pairs) >= 4

(***************************************************************************)
(* persist_cluster_results on results of one or two clusters:              *)
(* run_cluster_analysis called on lists that give {P1, P2}, {P3, P4} or    *)
(* both.                                                                   *)
(***************************************************************************)
PersistLists == {<<P1, P2>>, <<P3, P4>>, <<P1, P2, P3, P4>>}

PersistConfig ==
    [min_cluster_size |-> 2, max_solve_rate |-> 1000,
     similarity_threshold |-> 700, weights |-> DefaultWeights]

InitPersist ==
    /\ call = NoCall
    /\ ret = Pending
    /\ now = 0
    /\ cluster_results = {}
    /\ cluster_membership = {}
    /\ writer = None
    /\ req \in [Requests -> {ServiceCall(cases, PersistConfig) :
                                cases \in PersistLists}]

NextPersist ==
    \E r \in Requests :
        \/ RunClusterAnalysis(r)
        \/ DetectBegin(r)
        \/ BuildCluster(r)
        \/ DetectEnd(r)
        \/ PersistCluster(r)
        \/ Commit(r)
        \/ PersistFails(r)

SpecPersist == InitPersist /\ [][NextPersist]_vars

TablesUnchanged ==
    /\ cluster_results' = cluster_results
    /\ cluster_membership' = cluster_membership

\* C29: persist_cluster_results is all-or-nothing.  A call that fails leaves
\* the two tables as they were, the tables change only when a call commits,
\* and after the commit the row and the memberships of every cluster of the
\* call are in the tables.
C29_AllOrNothing ==
    [][/\ \A r \in Requests :
            /\ (req[r].pc = "persist" /\ req'[r].pc = "raised")
                  => TablesUnchanged
            /\ (req[r].pc = "persist" /\ req'[r].pc = "done") =>
                  \A k \in 1..Len(req[r].clusters) :
                      /\ ClusterRow(req[r].clusters[k], req[r].config)
                             \in cluster_results'
                      /\ MembershipRows(req[r].clusters[k])
                             \subseteq cluster_membership'
       /\ ~TablesUnchanged =>
             \E r \in Requests : req[r].pc = "persist" /\ req'[r].pc = "done"
      ]_vars

\* The failure half alone: a failed call leaves the tables as they were, and
\* nothing is written outside a commit.
C29_RollbackLeavesNothing ==
    [][/\ \A r \in Requests :
            (req[r].pc = "persist" /\ req'[r].pc = "raised") => TablesUnchanged
       /\ ~TablesUnchanged =>
             \E r \in Requests : req[r].pc = "persist" /\ req'[r].pc = "done"
      ]_vars

\* A call that failed after its first cluster was inserted.
C29_FailedMidway ==
    \E r \in Requests :
        /\ req[r].pc = "raised"
        /\ req[r].raised = "OperationalError"
        /\ req[r].persisted = 1
        /\ Len(req[r].clusters) = 2

(***************************************************************************)
(* detect_clusters called twice, on a list and on a permutation of it,     *)
(* with one config.                                                        *)
(***************************************************************************)
PermutePool == {P1, P2, P12, P5}

PermuteConfigs ==
    [min_cluster_size : {2, 3},
     max_solve_rate : {330, 1000},
     similarity_threshold : {700, 800},
     weights : {DefaultWeights}]

IsPermutation(s, t) ==
    /\ Len(s) = Len(t)
    /\ {s[i] : i \in 1..Len(s)} = {t[i] : i \in 1..Len(t)}

InitPermute ==
    /\ call = NoCall
    /\ ret = Pending
    /\ now = 0
    /\ cluster_results = {}
    /\ cluster_membership = {}
    /\ writer = None
    /\ \E cases \in CaseLists(PermutePool, MaxCases), config \in PermuteConfigs :
          \E permuted \in {t \in CaseLists(PermutePool, MaxCases) :
                              IsPermutation(cases, t)} :
              req = [r \in Requests |->
                        IF r = "r1" THEN DirectCall(cases, config)
                        ELSE DirectCall(permuted, config)]

SpecPermute == InitPermute /\ [][NextDetect]_vars

\* What the claim compares: per returned cluster, the member set, the three
\* counts and the solve rate.
ClusterSummaries(r) ==
    {[members |-> Members(req[r].clusters[k]),
      total_cases |-> req[r].clusters[k].total_cases,
      solved_cases |-> req[r].clusters[k].solved_cases,
      unsolved_cases |-> req[r].clusters[k].unsolved_cases,
      solve_rate |-> req[r].clusters[k].solve_rate] :
        k \in 1..Len(req[r].clusters)}

\* C30: two calls of detect_clusters on permutations of the same cases with
\* the same config return clusters with the same member sets, counts and
\* solve rates, and as many of them.
C30_OrderIndependent ==
    \A r1, r2 \in Requests :
        (/\ req[r1].pc = "persist"
         /\ req[r2].pc = "persist"
         /\ IsPermutation(req[r1].cases, req[r2].cases)
         /\ req[r1].config = req[r2].config)
            => /\ ClusterSummaries(r1) = ClusterSummaries(r2)
               /\ Len(req[r1].clusters) = Len(req[r2].clusters)

\* Two calls that returned the chain P2-P1-P12 as one cluster, one given the
\* list with an end of the chain first and the other with its middle first.
C30_Witness ==
    /\ req["r1"].pc = "persist"
    /\ req["r2"].pc = "persist"
    /\ req["r1"].config.similarity_threshold = 800
    /\ req["r1"].cases # req["r2"].cases
    /\ req["r1"].cases[1] = P2
    /\ req["r2"].cases[1] = P1
    /\ Len(req["r1"].clusters) = 1
    /\ Members(req["r1"].clusters[1]) = {P1, P2, P12}
    /\ Members(req["r2"].clusters[1]) = {P1, P2, P12}

====
